---- MODULE Spec2Model ----
(***************************************************************************)
(* Model of the ticha-magic conversion core:                               *)
(*   - TEIPager (src/src/tei_tools.py): the SAX handler that turns <pb/>   *)
(*     and <cb/> markers into wrapping <div>s;                             *)
(*   - FLExDict.lookup / strip_accents_and_spaces (src/flexify.py,         *)
(*     src/common.py): the gloss dictionary and its key normalisation;     *)
(*   - FLExParser (src/flexify.py): the annotation pass.                   *)
(* Strings whose characters matter (words, section ids, dictionary keys)   *)
(* are sequences of one-character tokens; opaque strings are TLA+ strings. *)
(***************************************************************************)
EXTENDS Integers, Sequences, FiniteSets, TLC

VARIABLES
    pc,             \* position of the running pass
    inStack,        \* elements of the source tree that saxify has entered
    inp,            \* the events saxify has fired so far
    valid,          \* FALSE once the source tree has left the documented input format
    tag_stack,      \* TEIPager.tag_stack
    page,           \* TEIPager.page
    line,           \* TEIPager.line
    elemStack,      \* ElementTreeContentHandler._element_stack of the sink
    real_tag_stack, \* AugmentedContentHandler.real_tag_stack
    root,           \* TRUE once the sink has created its root element
    out,            \* events the handler has passed to the sink
    err,            \* the exception that ended the pass, "none" while it runs
    msg,            \* what that exception says, <<>> while the pass runs
    dct,            \* FLExDict.dct
    query,          \* the last FLExDict.lookup call and its result
    norm,           \* the last strip_accents_and_spaces call and its results
    flex,           \* FLExParser state
    loads,          \* how many exports have been loaded
    loaded,         \* the exports given to FLExDict(data) so far, in order
    tagq,           \* the last tag_eq / outline_tag_eq call and its results
    outline,        \* the OutlineBuilder and the TreeBuilder it is built on
    gen,            \* the frame of the running generate_html call
    pass            \* bookkeeping of the annotation passes: how many, the counters at
                    \* the start of the current one, the <mark> spans it has left

pagerVars == <<inStack, inp, valid, tag_stack, page, line, elemStack,
               real_tag_stack, root, out, err, msg>>
vars == <<pc, inStack, inp, valid, tag_stack, page, line, elemStack,
          real_tag_stack, root, out, err, msg, dct, query, norm, flex, loads, loaded,
          tagq, outline, gen, pass>>

None == "None"

-----------------------------------------------------------------------------
(* Bounds of the source trees the pager is run on.                         *)
MaxEvents == 4      \* elements, markers and texts inside body
MaxDepth == 3       \* nesting of content elements inside body
MaxNormLen == 3     \* length of the strings given to strip_accents_and_spaces
MaxTexts == 2       \* <interlinear-text> blocks of a FLEx export
MaxWords == 2       \* <word> records of a FLEx export
MaxLoads == 1       \* FLEx exports loaded in one run
MaxConstructions == 2  \* FLExDict objects made one after another in one process
MaxFlexEvents == 3  \* elements and texts inside the root of an annotated document
MaxFlexDepth == 2   \* nesting of elements inside that root
MaxPasses == 2      \* annotation passes in one run

-----------------------------------------------------------------------------
(* Attributes: a set of <<key, value>> pairs with distinct keys.           *)
AttrGet(attributes, key, default) ==
    IF \E p \in attributes : p[1] = key
    THEN (CHOOSE p \in attributes : p[1] = key)[2]
    ELSE default

(* Names.  A qname is the token sequence <<local>> or <<prefix, ":", local>>; *)
(* an ns_name is <<uri, local>>.                                           *)
TEI_NS == "http://www.tei-c.org/ns/1.0"
QName(prefix, local) == IF prefix = "" THEN <<local>> ELSE <<prefix, ":", local>>
NsName(prefix, local) == IF prefix = "" THEN <<None, local>> ELSE <<TEI_NS, local>>
buildTag(ns_name) ==
    IF ns_name[1] = None THEN ns_name[2] ELSE "{" \o ns_name[1] \o "}" \o ns_name[2]

EndsWith(s, suffix) ==
    /\ Len(s) >= Len(suffix)
    /\ SubSeq(s, Len(s) - Len(suffix) + 1, Len(s)) = suffix

(* tag_eq without the namespace-prefix alternative *)
tag_eq_exact(tag_in_document, tag_to_check) ==
    tag_in_document = <<tag_to_check>>

tag_eq(tag_in_document, tag_to_check) ==
    \/ tag_in_document = <<tag_to_check>>
    \/ EndsWith(tag_in_document, <<":", tag_to_check>>)

(* KNOWN_NAMESPACES, each a token sequence like the tags they are put in *)
KNOWN_NAMESPACES == { <<>>, <<"http", ":", "//www.tei-c.org/ns/1.0">> }

(* outline_tag_eq: tag == tagname or tag == "{ns}tagname" for a known ns *)
outline_tag_eq(tag, tagname) ==
    \/ tag = <<tagname>>
    \/ \E ns \in KNOWN_NAMESPACES : tag = <<"{">> \o ns \o <<"}", tagname>>

Digit == <<"0", "1", "2", "3", "4", "5", "6", "7", "8", "9">>
RECURSIVE str(_)
str(n) == IF n < 10 THEN Digit[n + 1] ELSE str(n \div 10) \o Digit[(n % 10) + 1]

-----------------------------------------------------------------------------
(* strip_accents_and_spaces.  A string is a sequence of one-character      *)
(* tokens; a character outside ASCII is named by a token such as           *)
(* "a_acute"; "comb_tilde" is the combining tilde U+0303.                  *)

(* str.replace(key, val): leftmost, non-overlapping occurrences *)
RECURSIVE Replace(_, _, _)
Replace(s, key, val) ==
    IF Len(s) < Len(key) THEN s
    ELSE IF SubSeq(s, 1, Len(key)) = key
         THEN val \o Replace(SubSeq(s, Len(key) + 1, Len(s)), key, val)
         ELSE <<s[1]>> \o Replace(Tail(s), key, val)

accent_dict ==
    << <<<<"a_caron">>, <<"a">>>>, <<<<"a", "comb_tilde">>, <<"a">>>>,
       <<<<"a_acute">>, <<"a">>>>, <<<<"a_diaer">>, <<"a">>>>,
       <<<<"a_grave">>, <<"a">>>>, <<<<"a_tilde">>, <<"a">>>>,
       <<<<"a_macron">>, <<"a">>>>, <<<<"e_acute">>, <<"e">>>>,
       <<<<"e_caron">>, <<"e">>>>, <<<<"e_grave">>, <<"e">>>>,
       <<<<"e_macron">>, <<"e">>>>, <<<<"i_diaer">>, <<"i">>>>,
       <<<<"i_acute">>, <<"i">>>>, <<<<"i_circ">>, <<"i">>>>,
       <<<<"i_grave">>, <<"i">>>>, <<<<"o_acute">>, <<"o">>>>,
       <<<<"o_diaer">>, <<"o">>>>, <<<<"o_caron">>, <<"o">>>>,
       <<<<"o_circ">>, <<"o">>>>, <<<<"o_tilde">>, <<"o">>>>,
       <<<<"q", "comb_tilde">>, <<"q">>>>,
       <<<<"q", "comb_tilde", "comb_tilde">>, <<"q">>>>,
       <<<<"q", "~">>, <<"q", "u", "e">>>>,
       <<<<"long_s">>, <<"s">>>>, <<<<"u_circ">>, <<"u">>>>,
       <<<<"u_caron">>, <<"u">>>>, <<<<"u_acute">>, <<"u">>>> >>

(* for key, val in accent_dict.items(): s = s.replace(key, val); nothing   *)
(* is left to replace in an empty string                                   *)
RECURSIVE ReplaceAccents(_, _)
ReplaceAccents(s, i) ==
    IF i > Len(accent_dict) \/ s = <<>> THEN s
    ELSE ReplaceAccents(Replace(s, accent_dict[i][1], accent_dict[i][2]), i + 1)

Whitespace == {" ", "tab", "newline"}
(* s without the characters of a set *)
RECURSIVE Without(_, _)
Without(s, chars) ==
    IF s = <<>> THEN <<>>
    ELSE (IF s[1] \in chars THEN <<>> ELSE <<s[1]>>) \o Without(Tail(s), chars)

RemoveWhitespace(s) == Without(s, Whitespace)

(* str.lower() on the characters that have a lower-case form *)
LowerOf(c) ==
    CASE c = "A" -> "a"
      [] c = "B" -> "b"
      [] c = "Q" -> "q"
      [] c = "A_ACUTE" -> "a_acute"
      [] c = "A_TILDE" -> "a_tilde"
      [] OTHER -> c
RECURSIVE Lower(_)
Lower(s) == IF s = <<>> THEN <<>> ELSE <<LowerOf(s[1])>> \o Lower(Tail(s))

(* the characters \w matches: letters, digits and the underscore *)
NonWord == Whitespace \cup {",", ".", "[", "]", "'", "?", "*", "rsquo", "-", "~",
                            "comb_tilde"}
IsWordChar(c) == c \notin NonWord

(* length of the run of \w characters at the start of s *)
RECURSIVE WordRun(_)
WordRun(s) == IF s = <<>> \/ ~IsWordChar(s[1]) THEN 0 ELSE 1 + WordRun(Tail(s))

(* re.sub(r'\[\w+\]', '', s) *)
RECURSIVE RemoveBracketed(_)
RemoveBracketed(s) ==
    IF s = <<>> THEN s
    ELSE LET n == WordRun(Tail(s)) IN
         IF s[1] = "[" /\ n >= 1 /\ Len(s) >= n + 2 /\ s[n + 2] = "]"
         THEN RemoveBracketed(SubSeq(s, n + 3, Len(s)))
         ELSE <<s[1]>> \o RemoveBracketed(Tail(s))

punctuation_set == {",", ".", "[", "]", "'", "?", "*", "rsquo", "-"}
RemovePunctuation(s) == Without(s, punctuation_set)

strip_accents_and_spaces(s) ==
    RemovePunctuation(RemoveBracketed(Lower(RemoveWhitespace(
        ReplaceAccents(s, 1)))))

-----------------------------------------------------------------------------
(* FLExDict: dct maps a partition key to a map from normalised word to     *)
(* FLExWord.  A lookup result is <<>> (None) or <<flex_word>>.             *)

DictGet(d, key) == IF key \in DOMAIN d THEN <<d[key]>> ELSE <<>>
DictSet(d, key, val) == [k \in DOMAIN d \cup {key} |-> IF k = key THEN val ELSE d[k]]
EmptyDict == [k \in {} |-> <<>>]

StartsWith(s, prefix) ==
    Len(prefix) <= Len(s) /\ SubSeq(s, 1, Len(prefix)) = prefix

(* get_text_name: child.text.lower().replace(' ', '') *)
get_text_name(title) == Replace(Lower(title), <<" ">>, <<>>)

(* the inner loop of FLExDict.load keeping the first record of a key *)
RECURSIVE LoadWords_firstWins(_, _, _)
LoadWords_firstWins(part, words, i) ==
    IF i > Len(words) THEN part
    ELSE LET key == strip_accents_and_spaces(words[i].name) IN
         LoadWords_firstWins(IF key # <<>> /\ key \notin DOMAIN part
                             THEN DictSet(part, key, words[i]) ELSE part,
                             words, i + 1)

(* the inner loop of FLExDict.load over the <word> elements of one text *)
RECURSIVE LoadWords(_, _, _)
LoadWords(part, words, i) ==
    IF i > Len(words) THEN part
    ELSE LET key == strip_accents_and_spaces(words[i].name) IN
         LoadWords(IF key # <<>> THEN DictSet(part, key, words[i]) ELSE part,
                   words, i + 1)

(* FLExDict.load: one fresh partition per <interlinear-text> *)
RECURSIVE load(_, _, _)
load(d, data, i) ==
    IF i > Len(data) THEN d
    ELSE load(DictSet(d, get_text_name(data[i].title),
                      LoadWords(EmptyDict, data[i].words, 1)),
              data, i + 1)

(* the for loop of FLExDict.lookup: the best match among keys; the keys    *)
(* that are prefixes of one section have distinct lengths, so the order    *)
(* of iteration does not matter                                            *)
BestMatch(d, section) ==
    LET better == {k \in DOMAIN d : StartsWith(section, k) /\ Len(k) > Len(<<>>)}
    IN  IF better = {} THEN EmptyDict
        ELSE d[CHOOSE k \in better : \A j \in better : Len(j) <= Len(k)]

(* FLExDict.lookup that goes on to the other partitions when the exact     *)
(* partition misses the word                                               *)
lookup_fallThrough(d, section, word) ==
    LET w == strip_accents_and_spaces(word)
        others == [k \in DOMAIN d \ {section} |-> d[k]]
    IN  IF section \in DOMAIN d /\ w \in DOMAIN d[section]
        THEN DictGet(d[section], w)
        ELSE DictGet(BestMatch(others, section), w)

(* FLExDict.lookup that reads the partition as a defaultdict would: a     *)
(* word the section's partition lacks is entered with the empty string     *)
lookup_dct_defaultdict(d, section, word) ==
    LET w == strip_accents_and_spaces(word) IN
    IF section \in DOMAIN d /\ w \notin DOMAIN d[section]
    THEN DictSet(d, section, DictSet(d[section], w, ""))
    ELSE d

(* cls.dct after FLExDict.lookup: `in`, .get and .items read it only *)
lookup_dct(d, section, word) == d

lookup(d, section, word) ==
    LET w == strip_accents_and_spaces(word) IN
    IF section \in DOMAIN d
    THEN DictGet(d[section], w)
    ELSE DictGet(BestMatch(d, section), w)

(* The exports and queries the dictionary is exercised with.               *)
Titles == { <<"2">>, <<"2", ".", "3">>, <<" ">> }
WordNames == { <<"A">>, <<"b">>, <<".">> }
Glosses == { "g1", "g2" }
FLExWords == { [name |-> n, morphs |-> <<"m">>, lex_glosses |-> <<g>>,
                lit_en_gloss |-> "lit"] : n \in WordNames, g \in Glosses }
RECURSIVE SeqsOfLen(_, _)
SeqsOfLen(S, n) ==
    IF n = 0 THEN {<<>>} ELSE {Append(q, x) : q \in SeqsOfLen(S, n - 1), x \in S}
SeqsUpTo(S, n) == UNION { SeqsOfLen(S, k) : k \in 0..n }
(* the exports of at most t texts that hold at most w words in all *)
RECURSIVE ExportsOf(_, _)
ExportsOf(t, w) ==
    IF t = 0 THEN {<<>>}
    ELSE {<<>>} \cup
         UNION { { <<[title |-> ti, words |-> ws]>> \o rest :
                     ti \in Titles, rest \in ExportsOf(t - 1, w - Len(ws)) } :
                 ws \in SeqsUpTo(FLExWords, w) }
Exports == ExportsOf(MaxTexts, MaxWords)
Sections == { <<"2">>, <<"2", ".", "3">>, <<"2", ".", "3", ".", "9">>, <<"7">> }
QueryWords == { <<"a">>, <<"A">>, <<"b">>, <<"b", ".">> }

-----------------------------------------------------------------------------
(* The handler's state as one value, threaded through the calls a handler  *)
(* makes.  Every call is skipped once an exception is in flight.           *)
Cur == [tag_stack |-> tag_stack, page |-> page, line |-> line,
        elemStack |-> elemStack, real_tag_stack |-> real_tag_stack,
        root |-> root, out |-> out, err |-> err, msg |-> msg]

TopKind(es) == IF es = <<>> THEN "root" ELSE es[Len(es)].kind

(* What an exception says: its text, the tag it tried to close and the     *)
(* last opened tag (<<>> when it names none), the page and the line (None  *)
(* when it carries none).                                                  *)
Message(text, qname, last, page_no, line_no) ==
    [text |-> text, qname |-> qname, last |-> last, page |-> page_no, line |-> line_no]

IndexError == Message("index out of range", <<>>, <<>>, None, None)

Raise(h, e, m) == [h EXCEPT !.err = e, !.msg = m]

(* lxml.sax.ElementTreeContentHandler.startElementNS: the new element is   *)
(* the root or a child of the innermost open element.  kind says which    *)
(* wrapper or content element the caller is opening.                       *)
lxmlStart(h, ns_name, qname, attributes, kind) ==
    IF h.err # "none" THEN h
    ELSE IF h.root /\ h.elemStack = <<>> THEN Raise(h, "IndexError", IndexError)
    ELSE [h EXCEPT
            !.root = TRUE,
            !.elemStack = Append(@, [tag |-> buildTag(ns_name), attrs |-> attributes,
                                     kind |-> kind]),
            !.out = Append(@, [type |-> "Open", qname |-> qname,
                               tag |-> buildTag(ns_name), attrs |-> attributes,
                               kind |-> kind, on |-> TopKind(h.elemStack),
                               depth |-> Len(h.elemStack)])]

(* AugmentedContentHandler.startElementNS *)
AugStartElementNS(h, ns_name, qname, attributes, kind) ==
    IF h.err # "none" THEN h
    ELSE lxmlStart([h EXCEPT !.real_tag_stack = Append(@, qname)],
                   ns_name, qname, attributes, kind)

(* AugmentedContentHandler.endElementNS around lxml's endElementNS, which  *)
(* pops the innermost element and then compares its tag.  kind and         *)
(* attributes say which element the caller means to close.                 *)
AugEndElementNS(h, ns_name, qname, attributes, kind) ==
    IF h.err # "none" THEN h
    ELSE IF h.elemStack = <<>> THEN Raise(h, "IndexError", IndexError)
    ELSE LET n == Len(h.elemStack)
             element == h.elemStack[n]
             popped == [h EXCEPT !.elemStack = SubSeq(@, 1, n - 1)]
         IN  IF buildTag(ns_name) # element.tag
             THEN Raise(popped, "SaxError",
                        Message("Tried to close", qname,
                                IF h.real_tag_stack # <<>>
                                THEN h.real_tag_stack[Len(h.real_tag_stack)] ELSE <<>>,
                                None, None))
             ELSE [popped EXCEPT
                     !.real_tag_stack = SubSeq(@, 1, Len(@) - 1),
                     !.out = Append(@, [type |-> "Close", qname |-> qname,
                                        tag |-> buildTag(ns_name), attrs |-> attributes,
                                        kind |-> kind, on |-> element.kind,
                                        depth |-> n - 1,
                                        hit |-> /\ element.kind = kind
                                                /\ kind = "content" =>
                                                     element.attrs = attributes])]

(* AugmentedContentHandler.startElement / endElement *)
startElement(h, name, attributes, kind) ==
    AugStartElementNS(h, <<None, name>>, <<name>>, attributes, kind)

endElement(h, name, attributes, kind) ==
    AugEndElementNS(h, <<None, name>>, <<name>>, attributes, kind)

(* characters that lets the text go *)
characters_dropped(h, data) == h

(* lxml.sax.ElementTreeContentHandler.characters *)
characters(h, data) ==
    IF h.err # "none" THEN h
    ELSE IF h.elemStack = <<>> THEN Raise(h, "IndexError", IndexError)
    ELSE [h EXCEPT !.out = Append(@, [type |-> "Text", data |-> data,
                                      on |-> TopKind(h.elemStack),
                                      depth |-> Len(h.elemStack)])]

-----------------------------------------------------------------------------
(* TEIPager *)

PageAttrs(name, page_no, recto_verso_no) ==
    { <<"class", "printed-text-page " \o name>>,
      <<"data-n", page_no>>,
      <<"data-rvn", recto_verso_no>> }

ColAttrs == { <<"class", "col-xs-6">> }

text_name == "arte"

(* startNewPageDiv that records the page wrapper on the open-tag stack *)
startNewPageDiv_pushing(h, page_no, recto_verso_no) ==
    LET attrs == PageAttrs(text_name, page_no, recto_verso_no)
        h1 == startElement(h, "div", attrs, "page")
    IN  [h1 EXCEPT !.tag_stack = Append(@, [ns_name |-> <<None, "div">>,
                                            qname |-> <<"div">>,
                                            attributes |-> attrs])]

startNewPageDiv(h, page_no, recto_verso_no) ==
    startElement(h, "div", PageAttrs(text_name, page_no, recto_verso_no), "page")

RECURSIVE closeFrom(_, _)
closeFrom(h, i) ==
    IF i = 0 THEN h
    ELSE closeFrom(AugEndElementNS(h, h.tag_stack[i].ns_name, h.tag_stack[i].qname,
                                   h.tag_stack[i].attributes, "content"),
                   i - 1)

(* closeAllTags that closes nothing *)
closeAllTags_none(h) == h

(* closeAllTags that pops the tags it closes *)
closeAllTags_popping(h) == [closeFrom(h, Len(h.tag_stack)) EXCEPT !.tag_stack = <<>>]

closeAllTags(h) == closeFrom(h, Len(h.tag_stack))

RECURSIVE reopenFrom(_, _)
reopenFrom(h, i) ==
    IF i > Len(h.tag_stack) THEN h
    ELSE reopenFrom(AugStartElementNS(h, h.tag_stack[i].ns_name, h.tag_stack[i].qname,
                                      h.tag_stack[i].attributes, "content"),
                    i + 1)

(* reopenAllTags that forgets the outermost open tag *)
reopenAllTags_skipOutermost(h) == reopenFrom(h, 2)

reopenAllTags(h) == reopenFrom(h, 1)

(* handlePageBreak that does not advance the page counter *)
handlePageBreak_noIncrement(h, recto_verso_no) ==
    LET h1 == [h EXCEPT !.line = 1]
        h2 == closeAllTags(h1)
        h3 == endElement(h2, "div", {}, "page")
        h4 == startNewPageDiv(h3, str(h3.page), recto_verso_no)
    IN  reopenAllTags(h4)

(* handlePageBreak that numbers the new page wrapper before counting it *)
handlePageBreak_oldNumber(h, recto_verso_no) ==
    LET h1 == [h EXCEPT !.line = 1, !.page = @ + 1]
        h2 == closeAllTags(h1)
        h3 == endElement(h2, "div", {}, "page")
        h4 == startNewPageDiv(h3, str(h.page), recto_verso_no)
    IN  reopenAllTags(h4)

(* handlePageBreak that goes on counting the lines of the page before *)
handlePageBreak_keepLine(h, recto_verso_no) ==
    LET h1 == [h EXCEPT !.page = @ + 1]
        h2 == closeAllTags(h1)
        h3 == endElement(h2, "div", {}, "page")
        h4 == startNewPageDiv(h3, str(h3.page), recto_verso_no)
    IN  reopenAllTags(h4)

handlePageBreak(h, recto_verso_no) ==
    LET h1 == [h EXCEPT !.line = 1, !.page = @ + 1]
        h2 == closeAllTags(h1)
        h3 == endElement(h2, "div", {}, "page")
        h4 == startNewPageDiv(h3, str(h3.page), recto_verso_no)
    IN  reopenAllTags(h4)

handleColumnBreak(h, n) ==
    IF h.tag_stack = <<>> THEN Raise(h, "IndexError", IndexError)
    ELSE LET lastTag == h.tag_stack[Len(h.tag_stack)].qname IN
         IF lastTag # <<"div">>
         THEN Raise(h, "SaxError",
                    Message("Column break (<cb.../>) must be inside a <div> tag",
                            <<>>, <<>>, str(h.page), str(h.line)))
         ELSE IF n = "1"
              THEN startElement(startElement(h, "div", {}, "colgen"),
                                "div", ColAttrs, "col")
         ELSE IF n = ""
              THEN endElement(endElement(h, "div", {}, "col"), "div", {}, "colgen")
         ELSE startElement(endElement(h, "div", {}, "col"), "div", ColAttrs, "col")

(* TEIPager.startElementNS that restarts the line count at a pdf page break *)
TEIPager_startElementNS_resetOnPdf(h, ns_name, qname, attributes) ==
    IF tag_eq(qname, "pb")
    THEN IF AttrGet(attributes, "type", None) # "pdf"
         THEN handlePageBreak(h, AttrGet(attributes, "n", ""))
         ELSE [h EXCEPT !.line = 1]
    ELSE IF tag_eq(qname, "cb")
    THEN handleColumnBreak(h, AttrGet(attributes, "n", None))
    ELSE IF tag_eq(qname, "body")
    THEN startNewPageDiv(startElement(h, "div", {}, "outer"), str(h.page), "0")
    ELSE LET h1 == IF tag_eq(qname, "br") THEN [h EXCEPT !.line = @ + 1] ELSE h
             h2 == [h1 EXCEPT !.tag_stack =
                        Append(@, [ns_name |-> ns_name, qname |-> qname,
                                   attributes |-> attributes])]
         IN  AugStartElementNS(h2, ns_name, qname, attributes, "content")

(* TEIPager.startElementNS that counts a pdf page break as a page *)
TEIPager_startElementNS_countPdf(h, ns_name, qname, attributes) ==
    IF tag_eq(qname, "pb")
    THEN IF AttrGet(attributes, "type", None) # "pdf"
         THEN handlePageBreak(h, AttrGet(attributes, "n", ""))
         ELSE [h EXCEPT !.page = @ + 1]
    ELSE IF tag_eq(qname, "cb")
    THEN handleColumnBreak(h, AttrGet(attributes, "n", None))
    ELSE IF tag_eq(qname, "body")
    THEN startNewPageDiv(startElement(h, "div", {}, "outer"), str(h.page), "0")
    ELSE LET h1 == IF tag_eq(qname, "br") THEN [h EXCEPT !.line = @ + 1] ELSE h
             h2 == [h1 EXCEPT !.tag_stack =
                        Append(@, [ns_name |-> ns_name, qname |-> qname,
                                   attributes |-> attributes])]
         IN  AugStartElementNS(h2, ns_name, qname, attributes, "content")

TEIPager_startElementNS(h, ns_name, qname, attributes) ==
    IF tag_eq(qname, "pb")
    THEN IF AttrGet(attributes, "type", None) # "pdf"
         THEN handlePageBreak(h, AttrGet(attributes, "n", ""))
         ELSE h
    ELSE IF tag_eq(qname, "cb")
    THEN handleColumnBreak(h, AttrGet(attributes, "n", None))
    ELSE IF tag_eq(qname, "body")
    THEN startNewPageDiv(startElement(h, "div", {}, "outer"), str(h.page), "0")
    ELSE LET h1 == IF tag_eq(qname, "br") THEN [h EXCEPT !.line = @ + 1] ELSE h
             h2 == [h1 EXCEPT !.tag_stack =
                        Append(@, [ns_name |-> ns_name, qname |-> qname,
                                   attributes |-> attributes])]
         IN  AugStartElementNS(h2, ns_name, qname, attributes, "content")

(* TEIPager.endElementNS that lets the sink's error through as it is *)
TEIPager_endElementNS_noPosition(h, ns_name, qname) ==
    IF tag_eq(qname, "body")
    THEN endElement(endElement(h, "div", {}, "page"), "div", {}, "outer")
    ELSE IF ~tag_eq(qname, "pb") /\ ~tag_eq(qname, "cb")
    THEN IF h.tag_stack = <<>> THEN Raise(h, "IndexError", IndexError)
         ELSE AugEndElementNS([h EXCEPT !.tag_stack = SubSeq(@, 1, Len(@) - 1)],
                              ns_name, qname,
                              h.tag_stack[Len(h.tag_stack)].attributes, "content")
    ELSE h

(* TEIPager.endElementNS that leaves the closed element on the stack *)
TEIPager_endElementNS_noPop(h, ns_name, qname) ==
    IF tag_eq(qname, "body")
    THEN endElement(endElement(h, "div", {}, "page"), "div", {}, "outer")
    ELSE IF ~tag_eq(qname, "pb") /\ ~tag_eq(qname, "cb")
    THEN IF h.tag_stack = <<>> THEN Raise(h, "IndexError", IndexError)
         ELSE AugEndElementNS(h, ns_name, qname,
                              h.tag_stack[Len(h.tag_stack)].attributes, "content")
    ELSE h

TEIPager_endElementNS(h, ns_name, qname) ==
    IF tag_eq(qname, "body")
    THEN endElement(endElement(h, "div", {}, "page"), "div", {}, "outer")
    ELSE IF ~tag_eq(qname, "pb") /\ ~tag_eq(qname, "cb")
    THEN IF h.tag_stack = <<>> THEN Raise(h, "IndexError", IndexError)
         ELSE LET closes == h.tag_stack[Len(h.tag_stack)]
                  h1 == [h EXCEPT !.tag_stack = SubSeq(@, 1, Len(@) - 1)]
                  h2 == AugEndElementNS(h1, ns_name, qname, closes.attributes, "content")
              IN  IF h.err = "none" /\ h2.err = "SaxError"
                  THEN [h2 EXCEPT !.msg.page = str(h2.page), !.msg.line = str(h2.line)]
                  ELSE h2
    ELSE h

-----------------------------------------------------------------------------
(* The source tree, as sax.saxify walks it: one root element, body, whose  *)
(* descendants are content elements, <pb/> and <cb/> markers and text.     *)

Prefixes == {"", "tei"}
ContentElems ==
    { [local |-> "div", attrs |-> {}],
      [local |-> "div", attrs |-> {<<"id", "s1">>}],
      [local |-> "p", attrs |-> {}],
      [local |-> "br", attrs |-> {}] }
PbAttrs == { {}, {<<"n", "1">>}, {<<"type", "pdf">>} }
CbAttrs == { {<<"n", "1">>}, {<<"n", "2">>}, {<<"n", "">>} }
Texts == {"A", "B"}

IsStart(e, local) == e.type = "start" /\ e.local = local
Count(P(_)) == Cardinality({i \in 1..Len(inp) : P(inp[i])})
IsItem(e) == e.type = "text" \/ (e.type = "start" /\ e.local # "body")

InTop == inStack[Len(inStack)]
IsMarker(e) == e.local \in {"pb", "cb"}

(* The elements saxify may enter next, with the effect on validity: a      *)
(* column section is started by <cb n="1"/> inside a <div>, continued and  *)
(* ended by later <cb/>s of the same <div>.                                *)
NextElems ==
    IF pc = "init" THEN {[local |-> "body", prefix |-> p, attrs |-> {}] : p \in Prefixes}
    ELSE IF pc # "run" \/ IsMarker(InTop) THEN {}
    ELSE LET dp == inStack[1].prefix IN
         IF Count(IsItem) >= MaxEvents THEN {}
         ELSE {[local |-> c.local, prefix |-> "", attrs |-> c.attrs] :
                 c \in {c \in ContentElems : Len(inStack) <= MaxDepth}}
              \cup {[local |-> "pb", prefix |-> dp, attrs |-> a] : a \in PbAttrs}
              \cup {[local |-> "cb", prefix |-> dp, attrs |-> a] : a \in CbAttrs}

CbValid(e) ==
    /\ InTop.local = "div" /\ InTop.prefix = ""
    /\ InTop.col <=> AttrGet(e.attrs, "n", None) # "1"

ColAfter(e) ==
    LET n == AttrGet(e.attrs, "n", None) IN
    IF n = "1" THEN TRUE ELSE IF n = "" THEN FALSE ELSE InTop.col

Finish(h) ==
    /\ tag_stack' = h.tag_stack
    /\ page' = h.page
    /\ line' = h.line
    /\ elemStack' = h.elemStack
    /\ real_tag_stack' = h.real_tag_stack
    /\ root' = h.root
    /\ out' = h.out
    /\ err' = h.err
    /\ msg' = h.msg

(* saxify enters an element: TEIPager.startElementNS *)
StartElementNS ==
    \E e \in NextElems :
        LET h == TEIPager_startElementNS(Cur, NsName(e.prefix, e.local),
                                         QName(e.prefix, e.local), e.attrs)
            colNow == IF e.local = "cb" THEN ColAfter(e) ELSE FALSE
            under == IF e.local = "cb"
                     THEN [inStack EXCEPT ![Len(inStack)].col = colNow]
                     ELSE inStack
        IN  /\ Finish(h)
            /\ pc' = IF h.err # "none" THEN "error" ELSE "run"
            /\ inStack' = Append(under, [local |-> e.local, prefix |-> e.prefix,
                                         attrs |-> e.attrs, col |-> FALSE])
            /\ inp' = Append(inp, [type |-> "start", local |-> e.local,
                                   prefix |-> e.prefix, attrs |-> e.attrs])
            /\ valid' = (valid /\ (e.local = "cb" => CbValid(e)))
            /\ UNCHANGED <<dct, query, norm, flex, loads, loaded, tagq, outline, gen, pass>>

(* saxify leaves the innermost element: TEIPager.endElementNS *)
EndElementNS ==
    /\ pc = "run"
    /\ LET e == InTop
           h == TEIPager_endElementNS(Cur, NsName(e.prefix, e.local),
                                      QName(e.prefix, e.local))
       IN  /\ Finish(h)
           /\ pc' = IF h.err # "none" THEN "error"
                    ELSE IF Len(inStack) = 1 THEN "done" ELSE "run"
           /\ inStack' = SubSeq(inStack, 1, Len(inStack) - 1)
           /\ inp' = Append(inp, [type |-> "end", local |-> e.local,
                                  prefix |-> e.prefix])
           /\ valid' = (valid /\ ~e.col)
    /\ UNCHANGED <<dct, query, norm, flex, loads, loaded, tagq, outline, gen, pass>>

(* saxify reaches character data, the text of an element or the tail of   *)
(* a child, so never twice in a row: TEIPager inherits characters          *)
Characters ==
    /\ pc = "run"
    /\ ~IsMarker(InTop)
    /\ inp[Len(inp)].type # "text"
    /\ Count(IsItem) < MaxEvents
    /\ \E data \in Texts :
          /\ Finish(characters(Cur, data))
          /\ inp' = Append(inp, [type |-> "text", data |-> data])
    /\ pc' = IF err' # "none" THEN "error" ELSE "run"
    /\ UNCHANGED <<inStack, valid, dct, query, norm, flex, loads, loaded, tagq, outline, gen, pass>>

Init ==
    /\ pc = "init"
    /\ inStack = <<>>
    /\ inp = <<>>
    /\ valid = TRUE
    /\ tag_stack = <<>>
    /\ page = 0
    /\ line = 1
    /\ elemStack = <<>>
    /\ real_tag_stack = <<>>
    /\ root = FALSE
    /\ out = <<>>
    /\ err = "none"
    /\ msg = <<>>
    /\ tagq = <<>>
    /\ outline = <<>>
    /\ gen = <<>>
    /\ dct = EmptyDict
    /\ loads = 0
    /\ loaded = <<>>
    /\ query = <<>>
    /\ norm = <<>>
    /\ flex = [in_mark_tag |-> FALSE, word |-> <<>>, section |-> <<>>, tag_count |-> 0,
               total |-> 0, missed |-> 0]
    /\ pass = [n |-> 0, total0 |-> 0, missed0 |-> 0, marks |-> <<>>, nested |-> FALSE]

Next == StartElementNS \/ EndElementNS \/ Characters

Spec == Init /\ [][Next]_vars

-----------------------------------------------------------------------------
(* The normalisation on its own: every call is one step.                   *)
NormAlphabet == {"a", "a_acute", "A", "A_ACUTE", "q", "~", " ", "[", "]", "."}
NormInputs == SeqsUpTo(NormAlphabet, MaxNormLen)

(* strip_accents_and_spaces(s) for a new string s *)
Normalize ==
    /\ norm = <<>>
    /\ \E s \in NormInputs :
          norm' = [s |-> s, once |-> strip_accents_and_spaces(s), twice |-> <<>>]
    /\ UNCHANGED <<pc, dct, loads, loaded, query, flex, tagq, outline, gen, pass>>
    /\ UNCHANGED pagerVars

(* strip_accents_and_spaces applied to the result of the call before;      *)
(* twice is <<>> until then and <<result>> afterwards                      *)
Renormalize ==
    /\ norm # <<>>
    /\ norm.twice = <<>>
    /\ norm' = [norm EXCEPT !.twice = <<strip_accents_and_spaces(norm.once)>>]
    /\ UNCHANGED <<pc, dct, loads, loaded, query, flex, tagq, outline, gen, pass>>
    /\ UNCHANGED pagerVars

NextNorm == Normalize \/ Renormalize

SpecNorm == Init /\ [][NextNorm]_vars

-----------------------------------------------------------------------------
(* The tag comparisons on their own: every call is one step.  A tag of a   *)
(* document is a bare name, a name after one or two prefixes, or a name in *)
(* Clark notation with no, the TEI or another namespace.                   *)
TagNames == {"pb", "cb", "body", "br", "div", "p"}
TagLiterals == {"pb", "cb", "body", "br", "div"}
DocumentTags ==
    UNION { { <<n>>, <<"tei", ":", n>>, <<"a", ":", "b", ":", n>>,
              <<"{", "}", n>>,
              <<"{", "http", ":", "//www.tei-c.org/ns/1.0", "}", n>>,
              <<"{", "urn", ":", "x", "}", n>> } : n \in TagNames }

TagEq ==
    /\ tagq = <<>>
    /\ \E tag \in DocumentTags, literal \in TagLiterals :
          tagq' = [tag |-> tag, literal |-> literal,
                   tag_eq |-> tag_eq(tag, literal),
                   outline_tag_eq |-> outline_tag_eq(tag, literal)]
    /\ UNCHANGED <<pc, dct, loads, loaded, query, norm, flex, outline, gen, pass>>
    /\ UNCHANGED pagerVars

NextTag == TagEq

SpecTag == Init /\ [][NextTag]_vars

-----------------------------------------------------------------------------
(* generate_html (src/src/tei_tools.py).  A tree is written as the list of *)
(* the stages that made it: the parsed TEI, the XSLT transformation,       *)
(* paginate, flexify, each with its parameters.  paginate and flexify      *)
(* raise on some trees; generate_html catches nothing.                     *)
TeiRoots == {"tei1", "tei2"}
XsltPaths == {"xslt/levanto-arte.xslt", "xslt/cordova-arte.xslt"}
FlexPaths == {"", "cordova-arte_flex_export.json"}
TextNames == {"levanto-arte", "cordova-arte"}
SpellChoices == {"orig", "reg-spanish", "reg-spacing"}
AbbrChoices == {"abbr", "expan"}

Stage(op, params) == [op |-> op, params |-> params]

(* if flex_path: with the paginated tree at hand, what comes next *)
AfterPaginate_always(flex_path) == "flexify"

AfterPaginate(flex_path) == IF flex_path # "" THEN "flexify" ELSE "return"

(* the call: generate_html(tei_root, xslt_path=, flex_path=, text=, ...) *)
GenCall ==
    /\ gen = <<>>
    /\ \E t \in TeiRoots, x \in XsltPaths, f \in FlexPaths, n \in TextNames,
          sp \in SpellChoices, ab \in AbbrChoices :
          gen' = [at |-> "xslt", tei_root |-> <<Stage("tei", <<t>>)>>, xslt_path |-> x,
                  flex_path |-> f, text |-> n, spellchoice |-> sp, abbrchoice |-> ab,
                  html_root |-> <<>>, returned |-> <<>>]
    /\ UNCHANGED <<pc, dct, loads, loaded, query, norm, flex, tagq, outline, pass>>
    /\ UNCHANGED pagerVars

(* pseudo_html_root = xslt_transform(tei_root, abbrchoice=, spellchoice=) *)
GenXslt ==
    /\ gen # <<>> /\ gen.at = "xslt"
    /\ gen' = [gen EXCEPT
                 !.at = "paginate",
                 !.html_root = Append(gen.tei_root,
                                      Stage("xslt", <<gen.xslt_path, gen.abbrchoice,
                                                      gen.spellchoice>>))]
    /\ UNCHANGED <<pc, dct, loads, loaded, query, norm, flex, tagq, outline, pass>>
    /\ UNCHANGED pagerVars

(* html_root = paginate(pseudo_html_root, text) *)
GenPaginate ==
    /\ gen # <<>> /\ gen.at = "paginate"
    /\ \/ gen' = [gen EXCEPT !.at = AfterPaginate(gen.flex_path),
                              !.html_root = Append(@, Stage("paginate", <<gen.text>>))]
       \/ gen' = [gen EXCEPT !.at = "raised"]
    /\ UNCHANGED <<pc, dct, loads, loaded, query, norm, flex, tagq, outline, pass>>
    /\ UNCHANGED pagerVars

(* html_root = flexify(html_root, flex_path) *)
GenFlexify ==
    /\ gen # <<>> /\ gen.at = "flexify"
    /\ \/ gen' = [gen EXCEPT !.at = "return",
                              !.html_root = Append(@, Stage("flexify", <<gen.flex_path>>))]
       \/ gen' = [gen EXCEPT !.at = "raised"]
    /\ UNCHANGED <<pc, dct, loads, loaded, query, norm, flex, tagq, outline, pass>>
    /\ UNCHANGED pagerVars

(* return html_root *)
GenReturn ==
    /\ gen # <<>> /\ gen.at = "return"
    /\ gen' = [gen EXCEPT !.at = "returned", !.returned = <<gen.html_root>>]
    /\ UNCHANGED <<pc, dct, loads, loaded, query, norm, flex, tagq, outline, pass>>
    /\ UNCHANGED pagerVars

NextGen == GenCall \/ GenXslt \/ GenPaginate \/ GenFlexify \/ GenReturn

SpecGen == Init /\ [][NextGen]_vars

-----------------------------------------------------------------------------
(* The dictionary on its own: exports are loaded, then words looked up.    *)

(* FLExDict(data): __init__ calls load, which adds to the class's dct *)
FLExDict_init(exports) ==
    /\ pc = "init"
    /\ \E data \in exports :
          /\ dct' = load(dct, data, 1)
          /\ loaded' = Append(loaded, data)
    /\ loads' = loads + 1
    /\ query' = <<>>
    /\ UNCHANGED <<pc, norm, flex, tagq, outline, gen, pass>>
    /\ UNCHANGED pagerVars

(* a load discards the last query's record, so loading after a lookup     *)
(* reaches nothing that loading before it does not                         *)
LoadExport == query = <<>> /\ loads < MaxLoads /\ FLExDict_init(Exports)

(* FLExDict.lookup(section, word) *)
Lookup ==
    /\ pc = "init"
    /\ \E section \in Sections, word \in QueryWords :
          /\ query' = [section |-> section, word |-> word,
                       result |-> lookup(dct, section, word)]
          /\ dct' = lookup_dct(dct, section, word)
    /\ UNCHANGED <<pc, loads, loaded, norm, flex, tagq, outline, gen, pass>>
    /\ UNCHANGED pagerVars

NextDict == LoadExport \/ Lookup

SpecDict == Init /\ [][NextDict]_vars

(* One FLExDict(data) after another, as one conversion after another in    *)
(* one process makes them, each from an export of at most one text with at *)
(* most one word, and lookups in between and after.                        *)
Construct == loads < MaxConstructions /\ FLExDict_init(ExportsOf(1, 1))

NextConstruct == Construct \/ Lookup

SpecConstruct == Init /\ [][NextConstruct]_vars

-----------------------------------------------------------------------------
(* FLExParser (src/flexify.py).  Its sink is lxml's handler itself.        *)

FCur == [in_mark_tag |-> flex.in_mark_tag, word |-> flex.word,
         section |-> flex.section, tag_count |-> flex.tag_count,
         total |-> flex.total, missed |-> flex.missed,
         elemStack |-> elemStack, root |-> root, out |-> out, err |-> err,
         msg |-> msg]

(* lxml.sax.ElementTreeContentHandler.endElementNS *)
lxmlEnd(h, ns_name, qname, kind) ==
    IF h.err # "none" THEN h
    ELSE IF h.elemStack = <<>> THEN Raise(h, "IndexError", IndexError)
    ELSE LET n == Len(h.elemStack)
             element == h.elemStack[n]
             popped == [h EXCEPT !.elemStack = SubSeq(@, 1, n - 1)]
         IN  IF buildTag(ns_name) # element.tag
             THEN Raise(popped, "SaxError",
                        Message("Unexpected element closed", qname, <<>>, None, None))
             ELSE [popped EXCEPT
                     !.out = Append(@, [type |-> "Close", qname |-> qname,
                                        tag |-> buildTag(ns_name), kind |-> kind,
                                        on |-> element.kind, depth |-> n - 1])]

(* FLExParser.startElement / endElement / E *)
FLEx_startElement(h, tag, attributes, kind) ==
    lxmlStart(h, <<None, tag>>, <<tag>>, attributes, kind)

FLEx_endElement(h, tag, kind) == lxmlEnd(h, <<None, tag>>, <<tag>>, kind)

(* with self.E('td'): super().characters(entry), for entries[i..]; the    *)
(* data of a Text is the sequence of the strings it is put together from   *)
RECURSIVE createCells(_, _, _)
createCells(h, entries, i) ==
    IF i > Len(entries) THEN h
    ELSE createCells(
            FLEx_endElement(characters(FLEx_startElement(h, "td", {}, "annotation"),
                                       <<entries[i]>>),
                            "td", "annotation"),
            entries, i + 1)

(* createTableRow that leaves the row without cells *)
createTableRow_noCells(h, entries) ==
    FLEx_endElement(FLEx_startElement(h, "tr", {}, "annotation"), "tr", "annotation")

createTableRow(h, entries) ==
    FLEx_endElement(createCells(FLEx_startElement(h, "tr", {}, "annotation"), entries, 1),
                    "tr", "annotation")

(* any(entries): some entry is a non-empty string *)
any(entries) == \E i \in 1..Len(entries) : entries[i] # ""

(* flex_word is <<>> (None) or <<FLExWord>> *)
createFLExWord(h, flex_word) ==
    IF flex_word = <<>> THEN h
    ELSE LET w == flex_word[1]
             h1 == FLEx_startElement(h, "table", {}, "annotation")
             h2 == FLEx_endElement(
                       characters(FLEx_startElement(h1, "caption", {}, "annotation"),
                                  w.name),
                       "caption", "annotation")
             h3 == IF any(w.morphs) /\ any(w.lex_glosses)
                   THEN createTableRow(createTableRow(h2, w.morphs), w.lex_glosses)
                   ELSE h2
             h4 == FLEx_endElement(
                       characters(FLEx_startElement(h3, "td",
                                      {<<"colspan", str(Len(w.morphs))>>}, "annotation"),
                                  <<"'", w.lit_en_gloss, "'">>),
                       "td", "annotation")
         IN  FLEx_endElement(h4, "table", "annotation")

(* FLExParser.startElementNS that forgets the section at a div without id *)
FLExParser_startElementNS_notSticky(h, ns_name, qname, attributes) ==
    LET h1 == IF qname = <<"mark">>
              THEN [FLEx_startElement([h EXCEPT !.tag_count = @ + 1], "span",
                                      {<<"class", "popover-markup inline">>}, "wrapper")
                        EXCEPT !.in_mark_tag = TRUE]
              ELSE IF qname = <<"div">>
              THEN [h EXCEPT !.section = Replace(AttrGet(attributes, "id", <<>>),
                                                 <<".", "0">>, <<".">>)]
              ELSE h
    IN  lxmlStart(h1, ns_name, qname, attributes, "input")

(* FLExParser.startElementNS that passes the element on without attributes *)
FLExParser_startElementNS_noAttributes(h, ns_name, qname, attributes) ==
    LET h1 == IF qname = <<"mark">>
              THEN [FLEx_startElement([h EXCEPT !.tag_count = @ + 1], "span",
                                      {<<"class", "popover-markup inline">>}, "wrapper")
                        EXCEPT !.in_mark_tag = TRUE]
              ELSE IF qname = <<"div">>
              THEN LET new_section == AttrGet(attributes, "id", <<>>) IN
                   IF new_section # <<>>
                   THEN [h EXCEPT !.section = Replace(new_section, <<".", "0">>, <<".">>)]
                   ELSE h
              ELSE h
    IN  lxmlStart(h1, ns_name, qname, {}, "input")

FLExParser_startElementNS(h, ns_name, qname, attributes) ==
    LET h1 == IF qname = <<"mark">>
              THEN [FLEx_startElement([h EXCEPT !.tag_count = @ + 1], "span",
                                      {<<"class", "popover-markup inline">>}, "wrapper")
                        EXCEPT !.in_mark_tag = TRUE]
              ELSE IF qname = <<"div">>
              THEN LET new_section == AttrGet(attributes, "id", <<>>) IN
                   IF new_section # <<>>
                   THEN [h EXCEPT !.section = Replace(new_section, <<".", "0">>, <<".">>)]
                   ELSE h
              ELSE h
    IN  lxmlStart(h1, ns_name, qname, attributes, "input")

(* FLExParser.endElementNS that adds the hidden span to every marked span *)
FLExParser_endElementNS_alwaysHidden(h, ns_name, qname) ==
    LET h1 == lxmlEnd(h, ns_name, qname, "input") IN
    IF h1.err # "none" \/ qname # <<"mark">> THEN h1
    ELSE LET flex_word == lookup(dct, h1.section, h1.word)
             c1 == IF h1.word # <<>> THEN [h1 EXCEPT !.total = @ + 1] ELSE h1
             c2 == IF h1.word # <<>> /\ flex_word = <<>>
                   THEN [c1 EXCEPT !.missed = @ + 1] ELSE c1
             c3 == FLEx_startElement(c2, "span",
                       {<<"class", "content hide inline">>}, "hidden")
             h2 == FLEx_endElement(createFLExWord(c3, flex_word), "span", "hidden")
             h3 == FLEx_endElement(h2, "span", "wrapper")
         IN  IF h3.err # "none" THEN h3
             ELSE [h3 EXCEPT !.in_mark_tag = FALSE, !.word = <<>>]

(* FLExParser.endElementNS that counts every marked span, empty or not *)
FLExParser_endElementNS_countsAll(h, ns_name, qname) ==
    LET h1 == lxmlEnd(h, ns_name, qname, "input") IN
    IF h1.err # "none" \/ qname # <<"mark">> THEN h1
    ELSE LET c1 == [h1 EXCEPT !.total = @ + 1]
             h2 == IF h1.word # <<>>
                   THEN LET flex_word == lookup(dct, h1.section, h1.word)
                            c2 == IF flex_word = <<>>
                                  THEN [c1 EXCEPT !.missed = @ + 1] ELSE c1
                            c3 == FLEx_startElement(c2, "span",
                                      {<<"class", "content hide inline">>}, "hidden")
                        IN  FLEx_endElement(createFLExWord(c3, flex_word), "span", "hidden")
                   ELSE c1
             h3 == FLEx_endElement(h2, "span", "wrapper")
         IN  IF h3.err # "none" THEN h3
             ELSE [h3 EXCEPT !.in_mark_tag = FALSE, !.word = <<>>]

FLExParser_endElementNS(h, ns_name, qname) ==
    LET h1 == lxmlEnd(h, ns_name, qname, "input") IN
    IF h1.err # "none" \/ qname # <<"mark">> THEN h1
    ELSE LET h2 == IF h1.word # <<>>
                   THEN LET flex_word == lookup(dct, h1.section, h1.word)
                            c1 == [h1 EXCEPT !.total = @ + 1]
                            c2 == IF flex_word = <<>>
                                  THEN [c1 EXCEPT !.missed = @ + 1] ELSE c1
                            c3 == FLEx_startElement(c2, "span",
                                      {<<"class", "content hide inline">>}, "hidden")
                        IN  FLEx_endElement(createFLExWord(c3, flex_word), "span", "hidden")
                   ELSE h1
             h3 == FLEx_endElement(h2, "span", "wrapper")
         IN  IF h3.err # "none" THEN h3
             ELSE [h3 EXCEPT !.in_mark_tag = FALSE, !.word = <<>>]

(* FLExParser.characters that never adds the text to self.word *)
FLExParser_characters_noAccumulate(h, data) == characters(h, data)

(* FLExParser.characters that gathers text outside marked spans too *)
FLExParser_characters_everywhere(h, data) ==
    characters([h EXCEPT !.word = @ \o data], data)

FLExParser_characters(h, data) ==
    characters(IF h.in_mark_tag THEN [h EXCEPT !.word = @ \o data] ELSE h, data)

(* The annotated documents: a root <div> holding <div>s with or without    *)
(* an id, <mark> spans, other elements and text.                           *)
FlexElems ==
    { [local |-> "div", attrs |-> {}],
      [local |-> "div", attrs |-> {<<"id", <<"2", ".", "0", "3">>>>}],
      [local |-> "div", attrs |-> {<<"id", <<"2">>>>}],
      [local |-> "mark", attrs |-> {}],
      [local |-> "p", attrs |-> {}] }
FlexTexts == { <<"a">>, <<"b">> }
(* One export: in text "2" a word with two morphemes and two glosses and  *)
(* a word whose glosses are all empty, in text "2.3" a word whose          *)
(* morphemes are all empty.                                                *)
FlexExports ==
    { << [title |-> <<"2">>,
          words |-> << [name |-> <<"A">>, morphs |-> <<"a", "b">>,
                        lex_glosses |-> <<"x", "y">>, lit_en_gloss |-> "hi"],
                       [name |-> <<"b">>, morphs |-> <<"m">>,
                        lex_glosses |-> <<"">>, lit_en_gloss |-> "lit"] >>],
         [title |-> <<"2", ".", "3">>,
          words |-> << [name |-> <<"b">>, morphs |-> <<"", "">>,
                        lex_glosses |-> <<"x", "y">>, lit_en_gloss |-> "lit"] >>] >> }

IsFlexItem(e) == e.type \in {"text", "start"}

FinishFlex(h) ==
    /\ flex' = [in_mark_tag |-> h.in_mark_tag, word |-> h.word, section |-> h.section,
                tag_count |-> h.tag_count, total |-> h.total, missed |-> h.missed]
    /\ elemStack' = h.elemStack
    /\ root' = h.root
    /\ out' = h.out
    /\ err' = h.err
    /\ msg' = h.msg

(* FLExDict(flex_data) before a pass *)
FlexLoad ==
    /\ pass.n = 0
    /\ loads < MaxLoads
    /\ FLExDict_init(FlexExports)

(* flexify(): a new FLExParser on a new document; total and missed are     *)
(* attributes of the class and are not touched by __init__                 *)
flexify ==
    /\ pc \in {"init", "done"}
    /\ pass.n < MaxPasses
    /\ pc' = "flex"
    /\ flex' = [flex EXCEPT !.in_mark_tag = FALSE, !.word = <<>>, !.section = <<>>,
                            !.tag_count = 0]
    /\ elemStack' = <<>> /\ root' = FALSE /\ out' = <<>> /\ err' = "none"
    /\ msg' = <<>>
    /\ inStack' = <<>> /\ inp' = <<>>
    /\ pass' = [n |-> pass.n + 1, total0 |-> flex.total, missed0 |-> flex.missed,
                marks |-> <<>>, nested |-> FALSE]
    /\ UNCHANGED <<valid, tag_stack, page, line, real_tag_stack, dct, loads, loaded, query, norm,
                   tagq, outline, gen>>

FlexNextElems ==
    IF inStack = <<>>
    THEN IF inp = <<>> THEN {e \in FlexElems : e.local = "div"} ELSE {}
    ELSE IF Count(IsFlexItem) > MaxFlexEvents \/ Len(inStack) > MaxFlexDepth THEN {}
    ELSE FlexElems

InMark == \E i \in 1..Len(inStack) : inStack[i].local = "mark"

(* saxify enters an element: FLExParser.startElementNS *)
FlexStartElementNS ==
    /\ pc = "flex"
    /\ \E e \in FlexNextElems :
          /\ FinishFlex(FLExParser_startElementNS(FCur, <<None, e.local>>,
                                                  <<e.local>>, e.attrs))
          /\ inStack' = Append(inStack, [local |-> e.local, attrs |-> e.attrs,
                                         text |-> <<>>])
          /\ inp' = Append(inp, [type |-> "start", local |-> e.local, attrs |-> e.attrs])
          /\ pass' = [pass EXCEPT !.nested = @ \/ (e.local = "mark" /\ InMark)]
    /\ pc' = IF err' # "none" THEN "error" ELSE "flex"
    /\ UNCHANGED <<valid, tag_stack, page, line, real_tag_stack, dct, loads, loaded, query, norm,
                   tagq, outline, gen>>

(* saxify leaves the innermost element: FLExParser.endElementNS *)
FlexEndElementNS ==
    /\ pc = "flex"
    /\ inStack # <<>>
    /\ LET e == inStack[Len(inStack)] IN
          /\ FinishFlex(FLExParser_endElementNS(FCur, <<None, e.local>>, <<e.local>>))
          /\ inp' = Append(inp, [type |-> "end", local |-> e.local])
          /\ pass' = IF e.local = "mark"
                     THEN [pass EXCEPT !.marks =
                              Append(@, [text |-> e.text, section |-> flex.section])]
                     ELSE pass
    /\ inStack' = SubSeq(inStack, 1, Len(inStack) - 1)
    /\ pc' = IF err' # "none" THEN "error"
             ELSE IF Len(inStack) = 1 THEN "done" ELSE "flex"
    /\ dct' = IF /\ inStack[Len(inStack)].local = "mark"
                    /\ flex.word # <<>>
                    /\ lxmlEnd(FCur, <<None, "mark">>, <<"mark">>, "input").err = "none"
               THEN lookup_dct(dct, flex.section, flex.word)
               ELSE dct
    /\ UNCHANGED <<valid, tag_stack, page, line, real_tag_stack, loads, loaded, query, norm,
                   tagq, outline, gen>>

(* saxify reaches character data: FLExParser.characters *)
FlexCharacters ==
    /\ pc = "flex"
    /\ inStack # <<>>
    /\ Count(IsFlexItem) <= MaxFlexEvents
    /\ inp[Len(inp)].type # "text"
    /\ \E data \in FlexTexts :
          /\ FinishFlex(FLExParser_characters(FCur, data))
          /\ inp' = Append(inp, [type |-> "text", data |-> data])
          /\ inStack' = [i \in 1..Len(inStack) |->
                            [inStack[i] EXCEPT !.text = @ \o data]]
    /\ pc' = IF err' # "none" THEN "error" ELSE "flex"
    /\ UNCHANGED <<valid, tag_stack, page, line, real_tag_stack, dct, loads, loaded, query, norm,
                   tagq, outline, gen, pass>>

NextFlex == FlexLoad \/ flexify \/ FlexStartElementNS \/ FlexEndElementNS \/ FlexCharacters

SpecFlex == Init /\ [][NextFlex]_vars

-----------------------------------------------------------------------------
(* generate_html as the composition it is: paginate(pseudo_html_root,      *)
(* text) and then flexify on the tree paginate returned.  The pseudo-HTML  *)
(* trees: body holding <mark> spans, <p>, <pb/> markers and text.          *)

PipeElems == { [local |-> "mark", attrs |-> {}], [local |-> "p", attrs |-> {}] }
PipePbAttrs == { {}, {<<"type", "pdf">>} }

PipeNextElems ==
    IF pc = "init" THEN {[local |-> "body", prefix |-> "", attrs |-> {}]}
    ELSE IF pc # "run" \/ IsMarker(InTop) THEN {}
    ELSE IF Count(IsItem) >= MaxEvents THEN {}
    ELSE {[local |-> c.local, prefix |-> "", attrs |-> c.attrs] :
             c \in {c \in PipeElems : /\ Len(inStack) <= MaxDepth
                                       /\ c.local = "mark" => ~InMark}}
         \cup {[local |-> "pb", prefix |-> "", attrs |-> a] : a \in PipePbAttrs}

(* paginate: saxify enters an element of the pseudo-HTML tree *)
PipeStartElementNS ==
    /\ gen = <<>>
    /\ \E e \in PipeNextElems :
          LET h == TEIPager_startElementNS(Cur, NsName(e.prefix, e.local),
                                           QName(e.prefix, e.local), e.attrs)
          IN  /\ Finish(h)
              /\ pc' = IF h.err # "none" THEN "error" ELSE "run"
              /\ inStack' = Append(inStack, [local |-> e.local, prefix |-> e.prefix,
                                             attrs |-> e.attrs, col |-> FALSE])
              /\ inp' = Append(inp, [type |-> "start", local |-> e.local,
                                     prefix |-> e.prefix, attrs |-> e.attrs])
    /\ UNCHANGED <<valid, dct, query, norm, flex, loads, loaded, tagq, outline, gen, pass>>

(* What sax.saxify fires on the tree a sink has built: a start and an end  *)
(* for every element, and the character data between two tags in one       *)
(* piece, since the tree keeps it as one text or tail.                     *)
TreeEvent(e) ==
    IF e.type = "Open" THEN [type |-> "start", local |-> e.tag, attrs |-> e.attrs]
    ELSE IF e.type = "Close" THEN [type |-> "end", local |-> e.tag]
    ELSE [type |-> "text", data |-> <<e.data>>]

RECURSIVE saxify(_, _)
saxify(events, i) ==
    IF i > Len(events) THEN <<>>
    ELSE LET rest == saxify(events, i + 1)
             e == TreeEvent(events[i])
         IN  IF e.type = "text" /\ rest # <<>> /\ rest[1].type = "text"
             THEN <<[type |-> "text", data |-> e.data \o rest[1].data]>> \o Tail(rest)
             ELSE <<e>> \o rest

(* html_root = paginate(...) has returned; flexify(html_root, ...) makes   *)
(* its FLExParser                                                          *)
PipeFlexify ==
    /\ pc = "done" /\ gen = <<>>
    /\ gen' = [at |-> "flexify", pseudo_html_root |-> inp, html_root |-> saxify(out, 1)]
    /\ pc' = "flex"
    /\ flex' = [flex EXCEPT !.in_mark_tag = FALSE, !.word = <<>>, !.section = <<>>,
                            !.tag_count = 0]
    /\ elemStack' = <<>> /\ root' = FALSE /\ out' = <<>> /\ err' = "none"
    /\ msg' = <<>>
    /\ inStack' = <<>> /\ inp' = <<>>
    /\ pass' = [n |-> pass.n + 1, total0 |-> flex.total, missed0 |-> flex.missed,
                marks |-> <<>>, nested |-> FALSE]
    /\ UNCHANGED <<valid, tag_stack, page, line, real_tag_stack, dct, loads, loaded,
                   query, norm, tagq, outline>>

(* flexify: saxify fires the next event of html_root on the FLExParser;    *)
(* pass.marks keeps the word and the section of every lookup               *)
PipeSaxify ==
    /\ pc = "flex" /\ gen # <<>>
    /\ Len(inp) < Len(gen.html_root)
    /\ LET e == gen.html_root[Len(inp) + 1]
           h == IF e.type = "start"
                THEN FLExParser_startElementNS(FCur, <<None, e.local>>, <<e.local>>,
                                               e.attrs)
                ELSE IF e.type = "end"
                THEN FLExParser_endElementNS(FCur, <<None, e.local>>, <<e.local>>)
                ELSE FLExParser_characters(FCur, e.data)
           looksUp == e.type = "end" /\ e.local = "mark" /\ flex.word # <<>>
           last == Len(inp) + 1 = Len(gen.html_root)
       IN  /\ FinishFlex(h)
           /\ inp' = Append(inp, e)
           /\ inStack' = IF e.type = "start"
                         THEN Append(inStack, [local |-> e.local, attrs |-> e.attrs,
                                               text |-> <<>>])
                         ELSE IF e.type = "end"
                         THEN SubSeq(inStack, 1, Len(inStack) - 1)
                         ELSE [i \in 1..Len(inStack) |->
                                  [inStack[i] EXCEPT !.text = @ \o e.data]]
           /\ pass' = IF looksUp
                      THEN [pass EXCEPT !.marks =
                               Append(@, [text |-> flex.word, section |-> flex.section])]
                      ELSE pass
           /\ dct' = IF looksUp THEN lookup_dct(dct, flex.section, flex.word) ELSE dct
           /\ pc' = IF h.err # "none" THEN "error" ELSE IF last THEN "done" ELSE "flex"
           /\ gen' = IF h.err # "none" THEN [gen EXCEPT !.at = "raised"]
                     ELSE IF last THEN [gen EXCEPT !.at = "return"] ELSE gen
    /\ UNCHANGED <<valid, tag_stack, page, line, real_tag_stack, loads, loaded, query,
                   norm, tagq, outline>>

NextPipe ==
    \/ FlexLoad \/ PipeStartElementNS \/ EndElementNS \/ Characters
    \/ PipeFlexify \/ PipeSaxify

SpecPipe == Init /\ [][NextPipe]_vars

-----------------------------------------------------------------------------
(* OutlineBuilder (src/src/tei_tools.py), the target of an ET.XMLParser,   *)
(* built on xml.etree.ElementTree.TreeBuilder.  The TEIPager is run on the *)
(* same elements, event for event.                                         *)

MaxOutlineEvents == 3   \* elements and texts inside body
MaxOutlineDepth == 2    \* nesting of elements inside body

(* TreeBuilder.start / end / data / close.  The TreeBuilder written in     *)
(* Python asserts that an end names the innermost open element and that    *)
(* close finds none open; the C accelerator asserts neither.  o.strict     *)
(* says which of the two the interpreter has loaded.                       *)
TreeBuilder_start(o, tag, attrs) ==
    IF o.err # "none" THEN o
    ELSE [o EXCEPT !.elem = Append(@, tag),
                   !.events = Append(@, [type |-> "start", tag |-> tag,
                                         attrs |-> attrs])]

TreeBuilder_end(o, tag) ==
    IF o.err # "none" THEN o
    ELSE IF o.elem = <<>> THEN [o EXCEPT !.err = "IndexError"]
    ELSE LET n == Len(o.elem)
             popped == [o EXCEPT !.elem = SubSeq(@, 1, n - 1),
                                 !.events = Append(@, [type |-> "end", tag |-> tag,
                                                       closes |-> o.elem[n]])]
         IN  IF o.strict /\ o.elem[n] # tag
             THEN [popped EXCEPT !.err = "AssertionError"]
             ELSE popped

TreeBuilder_data(o, data) ==
    IF o.err # "none" THEN o
    ELSE [o EXCEPT !.events = Append(@, [type |-> "data", data |-> data])]

TreeBuilder_close(o) ==
    IF o.err # "none" THEN o
    ELSE IF o.strict /\ o.elem # <<>> THEN [o EXCEPT !.err = "AssertionError"]
    ELSE [o EXCEPT !.closed = TRUE]

(* find_attr: the value of the first key that is attrname or attrname in   *)
(* Clark notation with a known namespace                                   *)
find_attr(attrs, attrname) ==
    LET hits == {p \in attrs :
                    \/ p[1] = attrname
                    \/ \E ns \in {"", TEI_NS} : p[1] = "{" \o ns \o "}" \o attrname}
    IN  IF hits = {} THEN None ELSE (CHOOSE p \in hits : TRUE)[2]

(* str.split(sep) and sep.join(list) on token sequences *)
RECURSIVE Split(_, _)
Split(s, sep) ==
    IF \A i \in 1..Len(s) : s[i] # sep THEN <<s>>
    ELSE LET i == CHOOSE i \in 1..Len(s) : s[i] = sep /\ \A j \in 1..(i - 1) : s[j] # sep
         IN  <<SubSeq(s, 1, i - 1)>> \o Split(SubSeq(s, i + 1, Len(s)), sep)

RECURSIVE Join(_, _)
Join(sep, list) ==
    IF list = <<>> THEN <<>>
    ELSE IF Len(list) = 1 THEN list[1]
    ELSE list[1] \o <<sep>> \o Join(sep, Tail(list))

(* str.strip() *)
RECURSIVE Strip(_)
Strip(s) ==
    IF s = <<>> THEN s
    ELSE IF s[1] \in Whitespace THEN Strip(Tail(s))
    ELSE IF s[Len(s)] \in Whitespace THEN Strip(SubSeq(s, 1, Len(s) - 1))
    ELSE s

(* key.endswith("id"), for the attribute keys of the documents *)
XML_ID == "{http://www.w3.org/XML/1998/namespace}id"
EndsWithId(key) == key \in {"id", XML_ID}

(* self.in_progress = None *)
NoSection == <<>>
Section(number, title, page_no) == [number |-> number, title |-> title, page |-> page_no]

make_url(o) == <<"/en/texts/">> \o o.text \o <<"/", o.in_progress.page, "/original">>

(* the for loop of write_section that opens the lists between the depth    *)
(* of the last section and the depth of the new one                        *)
RECURSIVE openLists(_, _, _)
openLists(o, i, stop) ==
    IF i >= stop THEN o
    ELSE LET n == o.in_progress.number
             o1 == TreeBuilder_start(TreeBuilder_start(o, "ul", {}), "li", {})
             o2 == TreeBuilder_data(o1, Join(".", SubSeq(n, i + 1, Len(n))))
         IN  openLists(TreeBuilder_end(o2, "li"), i + 1, stop)

RECURSIVE closeLists(_, _)
closeLists(o, k) == IF k = 0 THEN o ELSE closeLists(TreeBuilder_end(o, "ul"), k - 1)

write_section(o) ==
    IF o.in_progress = NoSection THEN o
    ELSE LET how_many_to_close == Len(o.number) - Len(o.in_progress.number)
             id == <<"section">> \o Join("_", o.number)
             o1 == IF how_many_to_close > 0 THEN closeLists(o, how_many_to_close)
                   ELSE IF how_many_to_close < 0
                   THEN TreeBuilder_start(
                            openLists(o, Len(o.number),
                                      Len(o.number) - how_many_to_close - 1),
                            "ul",
                            IF Len(o.number) = 1
                            THEN {<<"id", id>>, <<"class", "collapse in">>}
                            ELSE {<<"id", id>>, <<"class", "collapse">>,
                                  <<"style", "height: 0px">>})
                   ELSE o
             o2 == TreeBuilder_start(
                       TreeBuilder_start(o1, "li", {}), "a", {<<"href", make_url(o)>>})
             o3 == TreeBuilder_data(o2, Join(".", o.in_progress.number) \o <<" ">>
                                        \o Strip(o.in_progress.title))
             o4 == TreeBuilder_end(o3, "a")
             target_section == <<"#", "section">> \o Join("_", o.in_progress.number)
             o5 == TreeBuilder_start(o4, "button",
                       {<<"class", "collapsed">>, <<"data-toggle", "collapse">>,
                        <<"data-target", target_section>>})
             o6 == TreeBuilder_end(TreeBuilder_start(o5, "div", {<<"class", "caret">>}),
                                   "div")
             o7 == TreeBuilder_end(TreeBuilder_end(o6, "button"), "li")
         IN  [o7 EXCEPT !.number = o.in_progress.number]

(* OutlineBuilder.start; the warnings it logs change nothing *)
OutlineBuilder_start(o, tag, attrs) ==
    IF outline_tag_eq(tag, "pb") /\ find_attr(attrs, "type") # "pdf"
    THEN [o EXCEPT !.page = @ + 1]
    ELSE IF outline_tag_eq(tag, "div")
    THEN LET matches == {p \in attrs : EndsWithId(p[1]) /\ StartsWith(p[2], o.text)} IN
         IF matches = {} THEN o
         ELSE LET value == (CHOOSE p \in matches : TRUE)[2]
                  number == Split(SubSeq(value, Len(o.text) + 1, Len(value)), ".")
              IN  [write_section(o) EXCEPT
                      !.in_progress = Section(number, <<>>, str(o.page))]
    ELSE IF outline_tag_eq(tag, "head") /\ find_attr(attrs, "type") = "outline"
    THEN [o EXCEPT !.get_title = TRUE]
    ELSE o

OutlineBuilder_end(o, tag) ==
    IF outline_tag_eq(tag, "head") THEN [o EXCEPT !.get_title = FALSE] ELSE o

OutlineBuilder_data(o, data) ==
    IF o.get_title /\ o.in_progress # NoSection
    THEN [o EXCEPT !.in_progress.title = @ \o data]
    ELSE o

OutlineBuilder_close(o) ==
    TreeBuilder_close(
        TreeBuilder_end(TreeBuilder_end(write_section(o), "ul"), "div"))

(* The documents: body holding <pb/> markers without a namespace, in the   *)
(* TEI namespace and in another one, <div>s with and without an id,        *)
(* <head type="outline"> and text.                                         *)
OTHER_NS == "urn:x"
UriTokens(uri) ==
    IF uri = TEI_NS THEN <<"http", ":", "//www.tei-c.org/ns/1.0">> ELSE <<"urn", ":", "x">>
ClarkTag(uri, local) ==
    IF uri = None THEN <<local>> ELSE <<"{">> \o UriTokens(uri) \o <<"}", local>>

OutlineText == <<"t">>
OutlineIds ==
    { <<"t", "1">>, <<"t", "1", ".", "2">>, <<"t", "1", ".", "2", ".", "7">>,
      <<"u", "1">> }
OutlineNames == { [prefix |-> "", uri |-> None], [prefix |-> "tei", uri |-> TEI_NS],
                  [prefix |-> "x", uri |-> OTHER_NS] }
OutlinePbAttrs == { {}, {<<"type", "pdf">>} }
OutlineElems ==
    { [local |-> "pb", prefix |-> n.prefix, uri |-> n.uri, attrs |-> a] :
         n \in OutlineNames, a \in OutlinePbAttrs }
    \cup { [local |-> "pb", prefix |-> "", uri |-> None,
            attrs |-> {<<"{" \o TEI_NS \o "}type", "pdf">>}] }
    \cup { [local |-> "div", prefix |-> "", uri |-> None, attrs |-> {<<XML_ID, v>>}] :
             v \in OutlineIds }
    \cup { [local |-> "div", prefix |-> "", uri |-> None, attrs |-> {}],
           [local |-> "head", prefix |-> "", uri |-> None,
            attrs |-> {<<"type", "outline">>}] }
OutlineData == {"A", " "}
FirstPages == {0, 2}

OutlineNextElems ==
    IF pc = "init" THEN {[local |-> "body", prefix |-> "", uri |-> None, attrs |-> {}]}
    ELSE IF pc # "run" \/ IsMarker(InTop) THEN {}
    ELSE IF Count(IsItem) >= MaxOutlineEvents THEN {}
    ELSE {e \in OutlineElems : e.local # "pb" => Len(inStack) <= MaxOutlineDepth}

(* target = OutlineBuilder(text=text, first_page=...) *)
OutlineBuilder_init ==
    /\ outline = <<>>
    /\ \E first_page \in FirstPages, strict \in BOOLEAN :
          outline' =
             TreeBuilder_start(
                 TreeBuilder_start(
                     [text |-> OutlineText, page |-> first_page, first_page |-> first_page,
                      in_progress |-> NoSection, get_title |-> FALSE, number |-> << <<"1">> >>,
                      elem |-> <<>>, events |-> <<>>, strict |-> strict, err |-> "none",
                      closed |-> FALSE],
                     "div", {<<"class", "index">>}),
                 "ul", {})
    /\ UNCHANGED <<pc, dct, query, norm, flex, loads, loaded, tagq, gen, pass>>
    /\ UNCHANGED pagerVars

(* the parsers enter an element: OutlineBuilder.start, and                 *)
(* TEIPager.startElementNS for the same element                            *)
OutlineStart ==
    /\ outline # <<>>
    /\ \E e \in OutlineNextElems :
          LET h == TEIPager_startElementNS(Cur, <<e.uri, e.local>>,
                                           QName(e.prefix, e.local), e.attrs)
          IN  /\ Finish(h)
              /\ pc' = IF h.err # "none" THEN "error" ELSE "run"
              /\ outline' = OutlineBuilder_start(outline, ClarkTag(e.uri, e.local), e.attrs)
              /\ inStack' = Append(inStack, [local |-> e.local, prefix |-> e.prefix,
                                             uri |-> e.uri, attrs |-> e.attrs,
                                             col |-> FALSE])
              /\ inp' = Append(inp, [type |-> "start", local |-> e.local,
                                     prefix |-> e.prefix, uri |-> e.uri,
                                     attrs |-> e.attrs])
    /\ UNCHANGED <<valid, dct, query, norm, flex, loads, loaded, tagq, gen, pass>>

(* the parsers leave the innermost element: OutlineBuilder.end and         *)
(* TEIPager.endElementNS                                                   *)
OutlineEnd ==
    /\ pc = "run" /\ outline # <<>>
    /\ LET e == InTop
           h == TEIPager_endElementNS(Cur, <<e.uri, e.local>>, QName(e.prefix, e.local))
       IN  /\ Finish(h)
           /\ pc' = IF h.err # "none" THEN "error"
                    ELSE IF Len(inStack) = 1 THEN "done" ELSE "run"
           /\ outline' = OutlineBuilder_end(outline, ClarkTag(e.uri, e.local))
           /\ inStack' = SubSeq(inStack, 1, Len(inStack) - 1)
           /\ inp' = Append(inp, [type |-> "end", local |-> e.local,
                                  prefix |-> e.prefix])
    /\ UNCHANGED <<valid, dct, query, norm, flex, loads, loaded, tagq, gen, pass>>

(* the parsers reach character data: OutlineBuilder.data and the           *)
(* characters TEIPager inherits                                            *)
OutlineCharacters ==
    /\ pc = "run" /\ outline # <<>>
    /\ ~IsMarker(InTop)
    /\ inp[Len(inp)].type # "text"
    /\ Count(IsItem) < MaxOutlineEvents
    /\ \E data \in OutlineData :
          /\ Finish(characters(Cur, data))
          /\ outline' = OutlineBuilder_data(outline, <<data>>)
          /\ inp' = Append(inp, [type |-> "text", data |-> data])
    /\ pc' = IF err' # "none" THEN "error" ELSE "run"
    /\ UNCHANGED <<inStack, valid, dct, query, norm, flex, loads, loaded, tagq, gen, pass>>

(* root = target.close() *)
OutlineClose ==
    /\ pc = "done" /\ outline # <<>>
    /\ outline' = OutlineBuilder_close(outline)
    /\ pc' = "closed"
    /\ UNCHANGED <<dct, query, norm, flex, loads, loaded, tagq, gen, pass>>
    /\ UNCHANGED pagerVars

NextOutline ==
    \/ OutlineBuilder_init \/ OutlineStart \/ OutlineEnd \/ OutlineCharacters
    \/ OutlineClose

SpecOutline == Init /\ [][NextOutline]_vars

-----------------------------------------------------------------------------
(* Properties of the pager.                                                *)

LocalPart(qname) == qname[Len(qname)]
IsTagEvent(e) == e.type \in {"Open", "Close"}
IsPageOpen(e) == e.type = "Open" /\ e.kind = "page"
PageOpens == {i \in 1..Len(out) : IsPageOpen(out[i])}
IsContentPb(e) == IsStart(e, "pb") /\ AttrGet(e.attrs, "type", None) # "pdf"
IsPdfPb(e) == IsStart(e, "pb") /\ AttrGet(e.attrs, "type", None) = "pdf"
OpenContent == SelectSeq(inStack, LAMBDA e : e.local \notin {"body", "pb", "cb"})

(* C1: no Open or Close that reaches the sink is a pb or cb element,       *)
(* whether the marker was written with a namespace prefix or without.      *)
C1_MarkerElimination ==
    \A i \in 1..Len(out) :
        IsTagEvent(out[i]) => LocalPart(out[i].qname) \notin {"pb", "cb"}

C1_Witness ==
    /\ pc = "done" /\ valid
    /\ inStack = <<>>
    /\ \E i, j \in 1..Len(inp) :
          /\ IsStart(inp[i], "pb") /\ inp[i].prefix = "tei"
          /\ IsStart(inp[j], "cb") /\ inp[j].prefix = "tei"

(* C2: on valid input every Close closes the element it was emitted for    *)
(* (same kind of wrapper, or the same content tag) and nothing stays open  *)
(* when the pass is over.                                                  *)
C2_OpenCloseBalance ==
    valid =>
        /\ err = "none"
        /\ \A i \in 1..Len(out) : out[i].type = "Close" => out[i].hit
        /\ pc = "done" => elemStack = <<>>

(* C3: with N content page breaks and any number of pdf page breaks the    *)
(* output holds N+1 page wrappers and the last one is numbered N.          *)
C3_PageCount ==
    (pc \in {"run", "done"}) =>
        LET N == Count(IsContentPb)
            last == CHOOSE i \in PageOpens : \A j \in PageOpens : j <= i
        IN  /\ Cardinality(PageOpens) = N + 1
            /\ AttrGet(out[last].attrs, "data-n", None) = str(N)

C3_Witness ==
    /\ pc = "done"
    /\ Count(IsContentPb) = 2
    /\ Count(IsPdfPb) = 1
    /\ Len(tag_stack) = 0

(* C4: a content page break met with k content elements open emits, right  *)
(* after the new page wrapper's Open, the Opens of those k elements,       *)
(* outermost first, with their names and attributes, and nothing more.     *)
C4_Renesting ==
    [][ (pc = "run" /\ Len(inp') = Len(inp) + 1 /\ IsContentPb(inp'[Len(inp')])) =>
          \A j \in (Len(out) + 1)..Len(out') :
             IsPageOpen(out'[j]) =>
                /\ Len(out') = j + Len(OpenContent)
                /\ \A i \in 1..Len(OpenContent) :
                      /\ out'[j + i].type = "Open"
                      /\ out'[j + i].qname = QName(OpenContent[i].prefix,
                                                   OpenContent[i].local)
                      /\ out'[j + i].attrs = OpenContent[i].attrs ]_vars

C4_Witness ==
    /\ pc = "run"
    /\ IsContentPb(inp[Len(inp)])
    /\ Len(tag_stack) = 3
    /\ \E i \in 1..3 : tag_stack[i].attributes # {}
    /\ Len(out) > 4
    /\ IsPageOpen(out[Len(out) - 3])

(* C5: every page wrapper is a child of the outer wrapper, also when the   *)
(* page break falls inside an open column section.                         *)
C5_PagesAreSiblings ==
    valid => \A i \in PageOpens : out[i].on = "outer" /\ out[i].depth = 1

(* C6: <body><p>A<pb n="1"/>B</p></body> becomes an outer wrapper with two *)
(* page wrappers numbered "0" and "1", holding <p>A</p> and <p>B</p>.      *)
ExampleInput ==
    << [type |-> "start", local |-> "body", prefix |-> "", attrs |-> {}],
       [type |-> "start", local |-> "p", prefix |-> "", attrs |-> {}],
       [type |-> "text", data |-> "A"],
       [type |-> "start", local |-> "pb", prefix |-> "", attrs |-> {<<"n", "1">>}],
       [type |-> "end", local |-> "pb", prefix |-> ""],
       [type |-> "text", data |-> "B"],
       [type |-> "end", local |-> "p", prefix |-> ""],
       [type |-> "end", local |-> "body", prefix |-> ""] >>

Shape(e) ==
    IF e.type = "Text" THEN <<"Text", e.data>>
    ELSE IF e.type = "Close" THEN <<"Close", e.tag>>
    ELSE IF \E a \in e.attrs : a[1] = "data-n"
         THEN <<"Open", e.tag, "page", AttrGet(e.attrs, "data-n", None)>>
         ELSE <<"Open", e.tag, e.attrs>>

ExampleOutput ==
    << <<"Open", "div", {}>>,
       <<"Open", "div", "page", "0">>,
       <<"Open", "p", {}>>, <<"Text", "A">>, <<"Close", "p">>,
       <<"Close", "div">>,
       <<"Open", "div", "page", "1">>,
       <<"Open", "p", {}>>, <<"Text", "B">>, <<"Close", "p">>,
       <<"Close", "div">>,
       <<"Close", "div">> >>

IsPrefix(s, t) == Len(s) <= Len(t) /\ s = SubSeq(t, 1, Len(s))

C6_EndToEnd ==
    IsPrefix(inp, ExampleInput) =>
        LET shapes == [i \in 1..Len(out) |-> Shape(out[i])] IN
        /\ err = "none"
        /\ IsPrefix(shapes, ExampleOutput)
        /\ inp = ExampleInput => (pc = "done" /\ shapes = ExampleOutput)

C6_Witness == inp = ExampleInput /\ pc = "done"

-----------------------------------------------------------------------------
(* Properties of the dictionary and of the normalisation.                  *)

PrefixKeys(section) == {k \in DOMAIN dct : StartsWith(section, k)}
Longest(keys) == CHOOSE k \in keys : \A j \in keys : Len(j) <= Len(k)
Entry(key, word) ==
    LET w == strip_accents_and_spaces(word) IN
    IF w \in DOMAIN dct[key] THEN <<dct[key][w]>> ELSE <<>>

(* C7: when the section is a partition key the result is that partition's  *)
(* entry for the normalised word, absent when the partition lacks it,      *)
(* whatever the partitions of shorter keys hold.                           *)
C7_ExactSection ==
    (query # <<>> /\ query.section \in DOMAIN dct) =>
        query.result = Entry(query.section, query.word)

C7_Witness ==
    /\ query # <<>>
    /\ query.section \in DOMAIN dct
    /\ query.result = <<>>
    /\ \E k \in PrefixKeys(query.section) :
          k # query.section /\ Entry(k, query.word) # <<>>

(* C8: when the section is no partition key the result is the entry of the *)
(* longest partition key that is a prefix of the section, of whatever      *)
(* length, and absent only if there is no such key or no such entry.       *)
C8_LongestPrefix ==
    (query # <<>> /\ query.section \notin DOMAIN dct) =>
        IF PrefixKeys(query.section) = {}
        THEN query.result = <<>>
        ELSE query.result = Entry(Longest(PrefixKeys(query.section)), query.word)

(* C9: normalising a normalised string changes nothing. *)
C9_Idempotent ==
    (norm # <<>> /\ norm.twice # <<>>) => norm.twice[1] = norm.once

-----------------------------------------------------------------------------
(* Properties of the annotation pass.                                      *)

MarkIndexes(P(_)) == {i \in 1..Len(pass.marks) : P(pass.marks[i])}
HasText(m) == m.text # <<>>
NoEntry(m) == lookup(dct, m.section, m.text) = <<>>
HasTextNoEntry(m) == HasText(m) /\ NoEntry(m)

RECURSIVE CellShapes(_)
CellShapes(entries) ==
    IF entries = <<>> THEN <<>>
    ELSE << <<"Open", "td", {}>>, <<"Text", <<entries[1]>>>>, <<"Close", "td">> >>
         \o CellShapes(Tail(entries))
RowShapes(entries) ==
    << <<"Open", "tr", {}>> >> \o CellShapes(entries) \o << <<"Close", "tr">> >>
SomeNonEmpty(entries) == \E i \in 1..Len(entries) : entries[i] # ""
TableShapes(w) ==
    << <<"Open", "table", {}>>,
       <<"Open", "caption", {}>>, <<"Text", w.name>>, <<"Close", "caption">> >>
    \o (IF SomeNonEmpty(w.morphs) /\ SomeNonEmpty(w.lex_glosses)
        THEN RowShapes(w.morphs) \o RowShapes(w.lex_glosses) ELSE <<>>)
    \o << <<"Open", "td", {<<"colspan", str(Len(w.morphs))>>}>>,
          <<"Text", <<"'", w.lit_en_gloss, "'">>>>, <<"Close", "td">>,
          <<"Close", "table">> >>
HiddenOpen == <<"Open", "span", {<<"class", "content hide inline">>}>>
ClosesMark ==
    /\ pc = "flex" /\ inStack # <<>> /\ inStack[Len(inStack)].local = "mark"
    /\ Len(inStack') = Len(inStack) - 1

(* C11: when a marked word with a record in the dictionary is closed, the  *)
(* hidden block holds one table: the caption with the headword, the        *)
(* morphemes row and the glosses row if and only if some morpheme and some *)
(* gloss is non-empty, then one cell with colspan str(n) holding the       *)
(* translation in single quotes.                                           *)
C11_TableShape ==
    [][ (ClosesMark /\ flex.word # <<>>
           /\ lookup(dct, flex.section, flex.word) # <<>>) =>
          LET w == lookup(dct, flex.section, flex.word)[1]
              new == [i \in 1..(Len(out') - Len(out)) |-> Shape(out'[Len(out) + i])]
          IN  /\ err' = "none"
              /\ new = << <<"Close", "mark">>, HiddenOpen >> \o TableShapes(w)
                          \o << <<"Close", "span">>, <<"Close", "span">> >> ]_vars

C11_Witness ==
    /\ pc = "flex" /\ err = "none"
    /\ inp # <<>> /\ inp[Len(inp)].type = "end" /\ inp[Len(inp)].local = "mark"
    /\ pass.marks # <<>>
    /\ LET m == pass.marks[Len(pass.marks)]
           r == lookup(dct, m.section, m.text)
       IN  /\ m.text # <<>> /\ r # <<>>
           /\ Len(r[1].morphs) = 2 /\ Len(r[1].lex_glosses) = 2
           /\ SomeNonEmpty(r[1].morphs)
    /\ \E i \in 1..Len(out) : out[i].type = "Open" /\ out[i].tag = "tr"

-----------------------------------------------------------------------------
(* Properties of the tag comparison.                                       *)

(* the part of a tag after its last ':' *)
RECURSIVE AfterLastColon(_)
AfterLastColon(t) ==
    IF \E i \in 1..Len(t) : t[i] = ":"
    THEN AfterLastColon(SubSeq(t, (CHOOSE i \in 1..Len(t) : t[i] = ":") + 1, Len(t)))
    ELSE t
IsClarkOf(t, literal) ==
    \/ t = <<"{", "}", literal>>
    \/ t = <<"{", "http", ":", "//www.tei-c.org/ns/1.0", "}", literal>>

(* C12: tag_eq(observed, literal) is true if and only if observed is the   *)
(* literal, or its part after the last ':' is the literal, or it is the    *)
(* literal in Clark notation with the empty or the TEI namespace.          *)
C12_TagEquality ==
    tagq # <<>> =>
        (tagq.tag_eq <=> \/ tagq.tag = <<tagq.literal>>
                         \/ AfterLastColon(tagq.tag) = <<tagq.literal>>
                         \/ IsClarkOf(tagq.tag, tagq.literal))

-----------------------------------------------------------------------------
(* Properties of the pager's errors.                                       *)

IsMismatch == err = "SaxError" /\ msg.text = "Tried to close"

(* the qnames of the elements the emitted events leave open, outermost    *)
(* first                                                                   *)
RECURSIVE OpenAfter(_, _)
OpenAfter(events, n) ==
    IF n = 0 THEN <<>>
    ELSE LET before == OpenAfter(events, n - 1) IN
         IF events[n].type = "Open" THEN Append(before, events[n].qname)
         ELSE IF events[n].type = "Close" THEN SubSeq(before, 1, Len(before) - 1)
         ELSE before
LastOpen == LET open == OpenAfter(out, Len(out)) IN open[Len(open)]
NamesTheTags ==
    /\ pc = "error"
    /\ msg.qname # <<>>
    /\ msg.last = LastOpen
    /\ msg.qname # msg.last
InOrdinaryClose ==
    /\ inp[Len(inp)].type = "end"
    /\ inp[Len(inp)].local \notin {"body", "pb", "cb"}

(* C13, as claimed: a Close whose name differs from the element open in    *)
(* the sink ends the pass with an error that names the tag, the last       *)
(* opened tag, the page and the line; nothing is emitted after it.         *)
C13_AsClaimed ==
    /\ [](IsMismatch =>
            /\ NamesTheTags
            /\ msg.page = str(page) /\ msg.line = str(line))
    /\ [][err # "none" => out' = out]_vars

(* C13: a Close whose name differs from the element open in the sink ends  *)
(* the pass with an error that names the tag and the last opened tag; it   *)
(* carries the page and the line if and only if the Close is that of an    *)
(* ordinary element of the input, not one emitted for a page break or a    *)
(* column break; nothing is emitted after it.                              *)
C13_FailFast ==
    /\ [](IsMismatch =>
            /\ NamesTheTags
            /\ IF InOrdinaryClose
               THEN msg.page = str(page) /\ msg.line = str(line)
               ELSE msg.page = None /\ msg.line = None)
    /\ [][err # "none" => out' = out]_vars

C13_Witness ==
    /\ IsMismatch /\ InOrdinaryClose
    /\ msg.qname = <<"p">> /\ msg.last = <<"div">>
    /\ msg.page = "1" /\ msg.line = "1"

IsColumnStep == pc = "run" /\ Len(inp') = Len(inp) + 1 /\ IsStart(inp'[Len(inp')], "cb")
ColumnError ==
    Message("Column break (<cb.../>) must be inside a <div> tag", <<>>, <<>>,
            str(page), str(line))

(* C14: a column break met while the top of the open-tag stack is not a    *)
(* div, or while the stack is empty, ends the pass with the error that a   *)
(* column break must be inside a container, with the page and the line,    *)
(* and emits nothing.                                                      *)
C14_InvalidColumnContext ==
    [][ (IsColumnStep /\ (tag_stack = <<>> \/
                          tag_stack[Len(tag_stack)].qname # <<"div">>)) =>
          /\ pc' = "error"
          /\ err' = "SaxError"
          /\ msg' = ColumnError
          /\ out' = out ]_vars

-----------------------------------------------------------------------------
(* Properties of generate_html.                                            *)

StageOps(tree) == [i \in 1..Len(tree) |-> tree[i].op]
Paginated ==
    << gen.tei_root[1],
       Stage("xslt", <<gen.xslt_path, gen.abbrchoice, gen.spellchoice>>),
       Stage("paginate", <<gen.text>>) >>

(* C15: the Paginator runs on the output of the XSLT step, the annotator   *)
(* runs after it, on the paginated tree, and only with a non-empty flex    *)
(* path; what generate_html returns is the annotated paginated tree if the *)
(* flex path is non-empty and the paginated tree itself if it is empty.    *)
C15_PipelineOrder ==
    gen # <<>> =>
        /\ \A i \in 1..Len(gen.html_root) :
              /\ gen.html_root[i].op = "paginate" =>
                    i = 3 /\ SubSeq(StageOps(gen.html_root), 1, 2) = <<"tei", "xslt">>
              /\ gen.html_root[i].op = "flexify" =>
                    /\ gen.flex_path # ""
                    /\ i = 4 /\ SubSeq(gen.html_root, 1, 3) = Paginated
        /\ gen.at = "returned" =>
              gen.returned = IF gen.flex_path # ""
                             THEN <<Append(Paginated, Stage("flexify", <<gen.flex_path>>))>>
                             ELSE <<Paginated>>

C15_Witness ==
    /\ gen # <<>> /\ gen.at = "returned"
    /\ gen.flex_path = ""
    /\ gen.returned = <<Paginated>>

-----------------------------------------------------------------------------
(* Properties of the pager's steps.                                        *)

IsPbStep ==
    /\ pc = "run" /\ Len(inp') = Len(inp) + 1
    /\ inp'[Len(inp')].type # "text" /\ inp'[Len(inp')].local = "pb"

(* C16: the start and the end of a page break, content or pdf, leave the   *)
(* open-tag stack as it was: same entries, same order, same attributes.    *)
C16_StackPreserved ==
    [][IsPbStep => tag_stack' = tag_stack]_vars

C16_Witness ==
    /\ pc = "run" /\ inp # <<>>
    /\ IsContentPb(inp[Len(inp)])
    /\ page = 2
    /\ Len(tag_stack) = 2
    /\ tag_stack[1].attributes # {}
    /\ out[Len(out)].type = "Open" /\ out[Len(out)].qname = tag_stack[2].qname

IsContentPbStep ==
    /\ pc = "run" /\ Len(inp') = Len(inp) + 1 /\ IsContentPb(inp'[Len(inp')])
Emitted == SubSeq(out', Len(out) + 1, Len(out'))

(* the events of a page break by their names alone *)
PageBreakNames(new) ==
    LET k == Len(tag_stack) IN
    /\ Len(new) = 2 * k + 2
    /\ \A i \in 1..k :
          new[i].type = "Close" /\ new[i].qname = tag_stack[k + 1 - i].qname
    /\ new[k + 1].type = "Close" /\ new[k + 1].qname = <<"div">>
    /\ IsPageOpen(new[k + 2])
    /\ \A i \in 1..k :
          /\ new[k + 2 + i].type = "Open"
          /\ new[k + 2 + i].qname = tag_stack[i].qname
          /\ new[k + 2 + i].attrs = tag_stack[i].attributes

(* C17: a content page break met with the open-tag stack [t1..tk] emits    *)
(* exactly Close(tk), ..., Close(t1), the Close of the page wrapper, the   *)
(* Open of the new page wrapper, Open(t1), ..., Open(tk), in this order.   *)
C17_PageBreakOrder ==
    [][ IsContentPbStep =>
          LET k == Len(tag_stack) IN
          /\ PageBreakNames(Emitted)
          /\ \A i \in 1..k : Emitted[i].hit
          /\ Emitted[k + 1].on = "page" ]_vars

(* a step that enters or leaves a <pb type="pdf"/> *)
IsPdfPbStep ==
    /\ IsPbStep
    /\ IF inp'[Len(inp')].type = "start"
       THEN IsPdfPb(inp'[Len(inp')])
       ELSE IsPdfPb(inp[Len(inp)])

(* C18: neither the start nor the end of a <pb type="pdf"/> sends an event *)
(* to the sink, and both leave page, line and the open-tag stack as they   *)
(* were; the line count is not restarted.                                  *)
C18_PdfBreakNoOp ==
    [][ IsPdfPbStep =>
          /\ out' = out
          /\ page' = page /\ line' = line
          /\ tag_stack' = tag_stack
          /\ err' = "none" ]_vars

C18_Witness ==
    /\ pc = "run" /\ Len(inp) > 2
    /\ inp[Len(inp)].type = "end" /\ IsPdfPb(inp[Len(inp) - 1])
    /\ line = 2
    /\ tag_stack # <<>>
    /\ out[Len(out)].type = "Open" /\ out[Len(out)].kind = "content"

IsBodyStep == pc = "init" /\ Len(inp') = 1

(* what entering body sends to the sink when the page wrapper's recto/verso *)
(* marker is rvn                                                           *)
BodyEntry(rvn) ==
    /\ Len(Emitted) = 2
    /\ Emitted[1].type = "Open" /\ Emitted[1].qname = <<"div">>
    /\ Emitted[1].attrs = {} /\ Emitted[1].on = "root"
    /\ Emitted[2].type = "Open" /\ Emitted[2].qname = <<"div">>
    /\ Emitted[2].on = "outer"
    /\ Emitted[2].attrs = { <<"class", "printed-text-page " \o text_name>>,
                            <<"data-n", "0">>,
                            <<"data-rvn", rvn>> }

(* C19: entering body sends exactly two Opens: a generic wrapper without    *)
(* attributes, then a page wrapper whose class is "printed-text-page " and *)
(* the text name, whose page number is "0" and whose recto/verso marker is *)
(* the empty string.                                                       *)
C19_BodyEntry ==
    [][IsBodyStep => BodyEntry("")]_vars

Wrappers == {"outer", "page", "colgen", "col"}
OpenWrappers == SelectSeq(elemStack, LAMBDA e : e.kind \in Wrappers)

(* C20: the open-tag stack holds the content elements of the input that    *)
(* are open, outermost first, and nothing else: no entry stands for the    *)
(* outer wrapper, a page wrapper or a wrapper made by a column break.      *)
C20_NoSyntheticOnStack ==
    /\ Len(tag_stack) = Len(OpenContent)
    /\ \A i \in 1..Len(tag_stack) :
          /\ tag_stack[i].ns_name = NsName(OpenContent[i].prefix, OpenContent[i].local)
          /\ tag_stack[i].qname = QName(OpenContent[i].prefix, OpenContent[i].local)
          /\ tag_stack[i].attributes = OpenContent[i].attrs

C20_Witness ==
    /\ pc = "run" /\ valid
    /\ [i \in 1..Len(OpenWrappers) |-> OpenWrappers[i].kind]
          = <<"outer", "page", "colgen", "col">>
    /\ Len(tag_stack) = 2
    /\ Count(IsContentPb) = 1

(* C21: the page wrapper opened for a content page break has the page      *)
(* counter's value after the increment as its page number, and as its      *)
(* recto/verso marker the n attribute of the <pb/>, or the empty string    *)
(* when the <pb/> has none.                                                *)
C21_PageWrapperAttrs ==
    [][ IsContentPbStep =>
          /\ page' = page + 1
          /\ err' = "none" =>
                Cardinality({i \in 1..Len(Emitted) : IsPageOpen(Emitted[i])}) = 1
          /\ \A i \in 1..Len(Emitted) :
                IsPageOpen(Emitted[i]) =>
                   Emitted[i].attrs =
                      { <<"class", "printed-text-page " \o text_name>>,
                        <<"data-n", str(page')>>,
                        <<"data-rvn", AttrGet(inp'[Len(inp')].attrs, "n", "")>> } ]_vars

C21_Witness ==
    /\ pc = "run" /\ Len(inp) > 3
    /\ IsContentPb(inp[Len(inp)]) /\ inp[Len(inp)].attrs = {<<"n", "1">>}
    /\ IsContentPb(inp[Len(inp) - 2]) /\ inp[Len(inp) - 2].attrs = {}
    /\ page = 2
    /\ \E i, j \in PageOpens :
          /\ i < j
          /\ AttrGet(out[i].attrs, "data-n", None) = "1"
          /\ AttrGet(out[i].attrs, "data-rvn", None) = ""
          /\ AttrGet(out[j].attrs, "data-n", None) = "2"
          /\ AttrGet(out[j].attrs, "data-rvn", None) = "1"

IsCbStep ==
    /\ pc = "run" /\ Len(inp') = Len(inp) + 1
    /\ inp'[Len(inp')].type = "start" /\ inp'[Len(inp')].local = "cb"

IsDivOpen(e, kind, attrs) ==
    e.type = "Open" /\ e.qname = <<"div">> /\ e.kind = kind /\ e.attrs = attrs
IsDivClose(e, kind) ==
    e.type = "Close" /\ e.qname = <<"div">> /\ e.on = kind

(* what a column break with attribute n sends to the sink *)
ColumnEvents(n) ==
    /\ Len(Emitted) = 2
    /\ IF n = "1"
       THEN IsDivOpen(Emitted[1], "colgen", {}) /\ IsDivOpen(Emitted[2], "col", ColAttrs)
       ELSE IF n = ""
       THEN IsDivClose(Emitted[1], "col") /\ IsDivClose(Emitted[2], "colgen")
       ELSE IsDivClose(Emitted[1], "col") /\ IsDivOpen(Emitted[2], "col", ColAttrs)

(* C22: in a valid document a <cb n="1"/> opens a generic wrapper and then *)
(* a col-xs-6 wrapper, a <cb n=""/> closes the column wrapper and then its *)
(* generic wrapper, a <cb/> with another n closes the column wrapper and   *)
(* opens a new one; page, line and the open-tag stack stay as they were.   *)
C22_ColumnDispatch ==
    [][ (IsCbStep /\ valid') =>
          /\ err' = "none"
          /\ ColumnEvents(AttrGet(inp'[Len(inp')].attrs, "n", None))
          /\ page' = page /\ line' = line /\ tag_stack' = tag_stack ]_vars

(* the same in documents whose column sections hold no page break *)
C22_ColumnDispatchApart ==
    [][ (IsCbStep /\ valid' /\ Count(IsContentPb) = 0) =>
          /\ err' = "none"
          /\ ColumnEvents(AttrGet(inp'[Len(inp')].attrs, "n", None))
          /\ page' = page /\ line' = line /\ tag_stack' = tag_stack ]_vars

IsBr(e) == IsStart(e, "br")
IsBrStep ==
    /\ pc = "run" /\ Len(inp') = Len(inp) + 1
    /\ inp'[Len(inp')].type = "start" /\ inp'[Len(inp')].local = "br"

(* C23: line is never below 1; it becomes 1 at every content page break,   *)
(* grows by exactly 1 when a <br> is opened and is changed by no other     *)
(* event.                                                                  *)
C23_LineCounter ==
    /\ [](line >= 1)
    /\ [][ IF IsContentPbStep THEN line' = 1
           ELSE IF IsBrStep THEN line' = line + 1
           ELSE line' = line ]_vars

C23_Witness ==
    /\ pc = "run" /\ Len(inp) > 4
    /\ IsBr(inp[Len(inp)])
    /\ IsContentPb(inp[Len(inp) - 2])
    /\ IsBr(inp[Len(inp) - 4])
    /\ line = 2 /\ page = 1

(* the positions in out of the page wrappers' Opens, in order *)
PageOpenSeq == SelectSeq([i \in 1..Len(out) |-> i], LAMBDA i : IsPageOpen(out[i]))

(* C24: page is the number of content page breaks met so far, pdf page     *)
(* breaks not counted, and the k-th page wrapper sent to the sink, counted *)
(* from 0, has str(k) as its page number.                                  *)
C24_ConsecutivePages ==
    /\ page = Count(IsContentPb)
    /\ \A k \in 1..Len(PageOpenSeq) :
          AttrGet(out[PageOpenSeq[k]].attrs, "data-n", None) = str(k - 1)

C24_Witness ==
    /\ pc = "done"
    /\ page = 2 /\ Len(PageOpenSeq) = 3
    /\ Count(IsPdfPb) = 1
    /\ IsPdfPb(inp[4])

(* the character data of a sequence of events, in order *)
InputTexts ==
    LET t == SelectSeq(inp, LAMBDA e : e.type = "text")
    IN  [i \in 1..Len(t) |-> t[i].data]
OutputTexts ==
    LET t == SelectSeq(out, LAMBDA e : e.type = "Text")
    IN  [i \in 1..Len(t) |-> t[i].data]

(* C25: as long as the pass has not raised, the Text events sent to the    *)
(* sink are the text events of the input, in the same order and with the   *)
(* same data; page breaks and column breaks drop, repeat and reorder none. *)
C25_TextPassThrough == err = "none" => OutputTexts = InputTexts

C25_Witness ==
    /\ pc = "done"
    /\ InputTexts = <<"B", "A">>
    /\ \E i \in 2..(Len(inp) - 1) :
          /\ IsContentPb(inp[i])
          /\ inp[i - 1].type = "text" /\ inp[i + 2].type = "text"
    /\ \E i \in 1..Len(out) : out[i].type = "Text" /\ out[i].depth > 2

IsBodyEndStep ==
    /\ pc = "run" /\ Len(inStack) = 1
    /\ Len(inp') = Len(inp) + 1 /\ inp'[Len(inp')].type = "end"

(* the sink's open elements are the outer wrapper and, in it, the page     *)
(* wrapper opened last                                                     *)
AtCurrentPage ==
    /\ Len(elemStack) = 2
    /\ elemStack[1].kind = "outer"
    /\ elemStack[2].kind = "page"
    /\ AttrGet(elemStack[2].attrs, "data-n", None) = str(page)

BodyClose ==
    /\ err' = "none"
    /\ AtCurrentPage
    /\ Len(Emitted) = 2
    /\ IsDivClose(Emitted[1], "page") /\ IsDivClose(Emitted[2], "outer")
    /\ elemStack' = <<>>

(* C26: at the end of body of a valid document exactly two Closes are      *)
(* sent, the first closes the current page wrapper and the second the      *)
(* outer wrapper, and the sink has no open element left.                   *)
C26_BodyClose ==
    [][(IsBodyEndStep /\ valid) => BodyClose]_vars

(* the same in documents without column breaks *)
C26_BodyCloseApart ==
    [][(IsBodyEndStep /\ valid /\ Count(LAMBDA e : IsStart(e, "cb")) = 0) => BodyClose]_vars

StackEntry(e) ==
    [ns_name |-> NsName(e.prefix, e.local), qname |-> QName(e.prefix, e.local),
     attributes |-> e.attrs]
IsOrdinary(e) == e.local \notin {"body", "pb", "cb"}

(* C27: after every input event the open-tag stack is the list of the      *)
(* ordinary elements of the input open at that point, outermost first,     *)
(* with their attributes: the Open of an ordinary element pushes it, its   *)
(* Close pops it, and no other event changes the stack.                    *)
C27_StackMirrorsInput ==
    /\ [](tag_stack = [i \in 1..Len(OpenContent) |-> StackEntry(OpenContent[i])])
    /\ [][ IF Len(inp') # Len(inp) + 1 \/ inp'[Len(inp')].type = "text"
           THEN tag_stack' = tag_stack
           ELSE IF ~IsOrdinary(inp'[Len(inp')])
           THEN tag_stack' = tag_stack
           ELSE IF inp'[Len(inp')].type = "start"
           THEN tag_stack' = Append(tag_stack, StackEntry(inp'[Len(inp')]))
           ELSE /\ tag_stack # <<>>
                /\ tag_stack[Len(tag_stack)] = StackEntry(InTop)
                /\ tag_stack' = SubSeq(tag_stack, 1, Len(tag_stack) - 1) ]_vars

C27_Witness ==
    /\ pc = "run" /\ Len(inp) > 4
    /\ inp[Len(inp)].type = "end" /\ inp[Len(inp)].local = "p"
    /\ Len(tag_stack) = 2
    /\ tag_stack[2].attributes # {}
    /\ Count(IsContentPb) = 1

-----------------------------------------------------------------------------
(* Properties of the dictionary's construction.                            *)

LastLoaded == loaded[Len(loaded)]
ShortName(block) == get_text_name(block.title)
WordKey(word) == strip_accents_and_spaces(word.name)

(* no later block of the export has the short name of block i *)
IsLastOfName(data, i) ==
    \A j \in (i + 1)..Len(data) : ShortName(data[j]) # ShortName(data[i])

(* the partition a block is described to give: its records under their     *)
(* normalised names, none under the empty key, the later of two records    *)
(* with one key                                                            *)
PartitionOf(words) ==
    LET keys == {WordKey(words[j]) : j \in 1..Len(words)} \ {<<>>}
        last(key) == CHOOSE j \in 1..Len(words) :
                        /\ WordKey(words[j]) = key
                        /\ \A m \in (j + 1)..Len(words) : WordKey(words[m]) # key
    IN  [key \in keys |-> words[last(key)]]

(* C28: after an export is loaded there is one partition for each of its   *)
(* text blocks under the block's short name, holding each word record of   *)
(* the block under its normalised name, no record under the empty key,     *)
(* and of two records with one key the later; of two blocks with one short *)
(* name the later gives the partition.                                     *)
C28_Construction ==
    loaded # <<>> =>
        LET data == LastLoaded IN
        /\ {ShortName(data[i]) : i \in 1..Len(data)} \subseteq DOMAIN dct
        /\ Len(loaded) = 1 =>
              DOMAIN dct = {ShortName(data[i]) : i \in 1..Len(data)}
        /\ \A i \in 1..Len(data) :
              IsLastOfName(data, i) =>
                 dct[ShortName(data[i])] = PartitionOf(data[i].words)

C28_Witness ==
    /\ loaded # <<>> /\ Len(LastLoaded) = 1
    /\ LET words == LastLoaded[1].words IN
          /\ Len(words) = 2
          /\ WordKey(words[1]) = WordKey(words[2])
          /\ words[1] # words[2]
          /\ dct[ShortName(LastLoaded[1])] = [k \in {WordKey(words[2])} |-> words[2]]

(* C29: after its construction the dictionary is read only: no lookup and  *)
(* no event of an annotation pass adds, removes or replaces a partition or *)
(* an entry, so a lookup of one section and word gives the same result     *)
(* before and after any step of a pass.                                    *)
C29_ReadOnly ==
    [][ loads' = loads =>
          /\ dct' = dct
          /\ \A section \in Sections, word \in FlexTexts :
                lookup(dct', section, word) = lookup(dct, section, word) ]_vars

C29_Witness ==
    /\ pc = "done" /\ loads = 1
    /\ Len(pass.marks) = 2
    /\ pass.marks[1] = pass.marks[2]
    /\ pass.marks[1].section \in DOMAIN dct
    /\ flex.missed = 2
    /\ dct = load(EmptyDict, LastLoaded, 1)

(* C30: a dictionary constructed from an export answers from that export's *)
(* partitions alone: the result of a lookup is the result the same lookup  *)
(* has in a dictionary that holds the last export and nothing else,        *)
(* whatever was constructed before.                                        *)
C30_Isolation ==
    (query # <<>> /\ loaded # <<>>) =>
        query.result = lookup(load(EmptyDict, LastLoaded, 1), query.section, query.word)

(* the same after a single construction *)
C30_IsolationOfTheFirst ==
    (query # <<>> /\ Len(loaded) = 1) =>
        query.result = lookup(load(EmptyDict, LastLoaded, 1), query.section, query.word)

-----------------------------------------------------------------------------
(* Properties of the annotator's counters, section and word.               *)

(* C31: total and missed start at 0 for every annotation pass, so that at  *)
(* the end of a pass, the first or a later one, they are the numbers of    *)
(* that pass's document alone.                                             *)
C31_PerPassCounters ==
    /\ pass.n > 0 => (pass.total0 = 0 /\ pass.missed0 = 0)
    /\ (pc = "done" /\ ~pass.nested) =>
          /\ flex.total = Cardinality(MarkIndexes(HasText))
          /\ flex.missed = Cardinality(MarkIndexes(HasTextNoEntry))

(* the same for the first pass of a process *)
C31_FirstPassCounters ==
    /\ pass.n = 1 => (pass.total0 = 0 /\ pass.missed0 = 0)
    /\ (pass.n = 1 /\ pc = "done" /\ ~pass.nested) =>
          /\ flex.total = Cardinality(MarkIndexes(HasText))
          /\ flex.missed = Cardinality(MarkIndexes(HasTextNoEntry))

(* an id without every "0" that follows a "." *)
CollapseDotZero(id) ==
    LET keep == SelectSeq([i \in 1..Len(id) |-> i],
                          LAMBDA i : ~(i > 1 /\ id[i] = "0" /\ id[i - 1] = "."))
    IN  [k \in 1..Len(keep) |-> id[keep[k]]]

IsFlexStep == pc = "flex" /\ Len(inp') = Len(inp) + 1
IsIdDivStep ==
    /\ IsFlexStep
    /\ inp'[Len(inp')].type = "start" /\ inp'[Len(inp')].local = "div"
    /\ AttrGet(inp'[Len(inp')].attrs, "id", <<>>) # <<>>

(* C32: entering a div with a non-empty id makes that id, every ".0" in it *)
(* replaced by ".", the current section; entering a div without id, and    *)
(* every other event of the pass, leaves the current section as it was.    *)
C32_StickySection ==
    [][ IsFlexStep =>
          IF IsIdDivStep
          THEN flex'.section = CollapseDotZero(AttrGet(inp'[Len(inp')].attrs, "id", <<>>))
          ELSE flex'.section = flex.section ]_vars

C32_Witness ==
    /\ pc = "flex" /\ Len(inp) > 1
    /\ inp[1].attrs = {<<"id", <<"2", ".", "0", "3">>>>}
    /\ inp[Len(inp)].type = "start" /\ inp[Len(inp)].local = "div"
    /\ inp[Len(inp)].attrs = {}
    /\ flex.section = <<"2", ".", "3">>

HasId(e) == e.local = "div" /\ AttrGet(e.attrs, "id", <<>>) # <<>>

(* the section of the innermost open div that has an id, <<>> if none has *)
EnclosingSection ==
    LET ids == SelectSeq(inStack, HasId) IN
    IF ids = <<>> THEN <<>>
    ELSE CollapseDotZero(AttrGet(ids[Len(ids)].attrs, "id", <<>>))

IsLookupStep ==
    /\ IsFlexStep
    /\ inp'[Len(inp')].type = "end" /\ inp'[Len(inp')].local = "mark"
    /\ flex.word # <<>>

(* a div with an id has been closed *)
SomeIdDivClosed ==
    Cardinality({i \in 1..Len(inp) : inp[i].type = "start" /\ HasId(inp[i])})
        > Len(SelectSeq(inStack, HasId))

(* C33: at every lookup of a marked word the current section is the        *)
(* section of the nearest enclosing div with an id, also for the words     *)
(* that follow a nested div with an id in its parent.                      *)
C33_NearestSection ==
    [][IsLookupStep => flex.section = EnclosingSection]_vars

(* the same as long as no div with an id has been closed *)
C33_NearestSectionBefore ==
    [][(IsLookupStep /\ ~SomeIdDivClosed) => flex.section = EnclosingSection]_vars

IsMarkStartStep ==
    /\ IsFlexStep
    /\ inp'[Len(inp')].type = "start" /\ inp'[Len(inp')].local = "mark"
IsMarkEndStep ==
    /\ IsFlexStep
    /\ inp'[Len(inp')].type = "end" /\ inp'[Len(inp')].local = "mark"

IsOpenOf(e, tag, kind, on) ==
    e.type = "Open" /\ e.tag = tag /\ e.kind = kind /\ e.on = on
IsCloseOf(e, tag, on) == e.type = "Close" /\ e.tag = tag /\ e.on = on

(* C34: a marked span is sent as the Open of a wrapper span and the Open   *)
(* of the mark, its content, the Close of the mark, then, only if the word *)
(* gathered is not empty, the Open of the hidden span in the wrapper, the  *)
(* annotation and the Close of the hidden span, and last the Close of the  *)
(* wrapper span.                                                           *)
C34_MarkedSpanOrder ==
    [][ /\ IsMarkStartStep =>
              /\ err' = "none"
              /\ Len(Emitted) = 2
              /\ Emitted[1].type = "Open" /\ Emitted[1].tag = "span"
              /\ Emitted[1].kind = "wrapper"
              /\ Emitted[1].attrs = {<<"class", "popover-markup inline">>}
              /\ IsOpenOf(Emitted[2], "mark", "input", "wrapper")
        /\ IsMarkEndStep =>
              LET n == Len(Emitted) IN
              /\ err' = "none"
              /\ n >= 2
              /\ IsCloseOf(Emitted[1], "mark", "input")
              /\ IsCloseOf(Emitted[n], "span", "wrapper")
              /\ Emitted[n].depth = Emitted[1].depth - 1
              /\ IF flex.word = <<>> THEN n = 2
                 ELSE /\ n >= 4
                      /\ IsOpenOf(Emitted[2], "span", "hidden", "wrapper")
                      /\ Emitted[2].attrs = {<<"class", "content hide inline">>}
                      /\ IsCloseOf(Emitted[n - 1], "span", "hidden")
                      /\ \A i \in 3..(n - 2) :
                            /\ Emitted[i].depth > Emitted[2].depth
                            /\ Emitted[i].type # "Text" =>
                                  Emitted[i].kind = "annotation" ]_vars

C34_Witness ==
    /\ pc = "flex" /\ Len(inp) > 5
    /\ inp[Len(inp)].type = "end" /\ inp[Len(inp)].local = "mark"
    /\ inp[Len(inp) - 1].type = "start" /\ inp[Len(inp) - 1].local = "mark"
    /\ Len(pass.marks) = 2
    /\ pass.marks[1].text # <<>>
    /\ lookup(dct, pass.marks[1].section, pass.marks[1].text) # <<>>
    /\ pass.marks[2].text = <<>>
    /\ IsCloseOf(out[Len(out)], "span", "wrapper")
    /\ IsCloseOf(out[Len(out) - 1], "mark", "input")

(* C35, as claimed: outside a marked span the word gathered is empty, and  *)
(* at the Close of a marked span it is the concatenation, in order, of the *)
(* text events of the input between the span's Open and its Close, and of  *)
(* nothing the annotator has made itself.                                  *)
C35_AsClaimed ==
    /\ []((pc = "flex" /\ ~InMark) => flex.word = <<>>)
    /\ [][IsMarkEndStep => flex.word = inStack[Len(inStack)].text]_vars

(* C35: outside a marked span the word gathered is empty, and at the Close *)
(* of a marked span of a document whose marked spans are not nested it is  *)
(* the concatenation, in order, of the text events of the input between    *)
(* the span's Open and its Close, and of nothing the annotator has made.   *)
C35_WordAccumulator ==
    /\ []((pc = "flex" /\ ~InMark) => flex.word = <<>>)
    /\ [][(IsMarkEndStep /\ ~pass.nested) => flex.word = inStack[Len(inStack)].text]_vars

C35_Witness ==
    /\ pc = "flex" /\ ~pass.nested /\ Len(inp) = 5
    /\ inp[2].type = "text" /\ inp[2].data = <<"b">>
    /\ inp[4].type = "text" /\ inp[4].data = <<"a">>
    /\ inp[5].type = "end" /\ inp[5].local = "mark"
    /\ pass.marks = << [text |-> <<"a">>, section |-> <<"2">>] >>
    /\ lookup(dct, <<"2">>, <<"a">>) # <<>>
    /\ flex.word = <<>> /\ flex.total = 1 /\ flex.missed = 0

-----------------------------------------------------------------------------
(* Properties of the annotator's output.                                   *)

Inserted == {"wrapper", "hidden", "annotation"}

(* an event the annotator has added: the Open or the Close of a wrapper    *)
(* span, of a hidden span or of an element in it, or text in a hidden span *)
IsInserted(e) ==
    IF e.type = "Open" THEN e.kind \in Inserted ELSE e.on \in Inserted

(* an event of the output in the form of the input's events *)
AsInput(e) ==
    IF e.type = "Open" THEN [type |-> "start", local |-> e.tag, attrs |-> e.attrs]
    ELSE IF e.type = "Close" THEN [type |-> "end", local |-> e.tag]
    ELSE [type |-> "text", data |-> e.data]

Stripped ==
    LET kept == SelectSeq(out, LAMBDA e : ~IsInserted(e))
    IN  [i \in 1..Len(kept) |-> AsInput(kept[i])]

(* C36: the output of a pass that has not raised, without the wrapper      *)
(* spans and without the hidden spans and what they hold, is the input:    *)
(* every Open, Close and Text of the input, once, in order and unaltered.  *)
C36_RoundTrip ==
    (pc \in {"flex", "done"} /\ err = "none") => Stripped = inp

C36_Witness ==
    /\ pc = "done" /\ Len(inp) = 7
    /\ Len(out) > Len(inp) + 4
    /\ \E i \in 1..Len(inp) : inp[i].type = "start" /\ inp[i].attrs # {}
    /\ \E i \in 1..Len(inp) : inp[i].type = "text"
    /\ \E i \in 1..Len(out) : out[i].type = "Text" /\ out[i].on = "annotation"

HiddenOpens(events) ==
    {i \in 1..Len(events) : events[i].type = "Open" /\ events[i].kind = "hidden"}

(* C37: at the Close of a marked span total grows by 1 and a hidden span   *)
(* is sent if and only if the word gathered is not empty; missed grows by  *)
(* 1 exactly when the lookup of that word finds nothing, and then the      *)
(* hidden span is sent empty.                                              *)
C37_LookupOnlyNonEmpty ==
    [][ IsMarkEndStep =>
          LET found == lookup(dct, flex.section, flex.word) IN
          IF flex.word = <<>>
          THEN /\ flex'.total = flex.total /\ flex'.missed = flex.missed
               /\ HiddenOpens(Emitted) = {}
          ELSE /\ flex'.total = flex.total + 1
               /\ HiddenOpens(Emitted) = {2}
               /\ IF found = <<>>
                  THEN /\ flex'.missed = flex.missed + 1
                       /\ Len(Emitted) = 4
                       /\ IsCloseOf(Emitted[3], "span", "hidden")
                  ELSE /\ flex'.missed = flex.missed
                       /\ Len(Emitted) > 4
                       /\ IsOpenOf(Emitted[3], "table", "annotation", "hidden") ]_vars

C37_Witness ==
    /\ pc = "flex" /\ Len(inp) > 5
    /\ inp[Len(inp)].type = "end" /\ inp[Len(inp)].local = "mark"
    /\ Len(pass.marks) = 2
    /\ pass.marks[1].text = <<>>
    /\ pass.marks[2].text # <<>>
    /\ lookup(dct, pass.marks[2].section, pass.marks[2].text) = <<>>
    /\ flex.total = pass.total0 + 1 /\ flex.missed = pass.missed0 + 1
    /\ IsCloseOf(out[Len(out) - 1], "span", "hidden")
    /\ out[Len(out) - 2].type = "Open" /\ out[Len(out) - 2].kind = "hidden"

RECURSIVE TextBetween(_, _, _)
TextBetween(events, i, j) ==
    IF i > j THEN <<>>
    ELSE (IF events[i].type = "text" THEN <<events[i].data>> ELSE <<>>)
         \o TextBetween(events, i + 1, j)

IsMarkEnd(e) == e.type = "end" /\ e.local = "mark"
MarkEnd(events, i) ==
    CHOOSE j \in i..Len(events) :
        IsMarkEnd(events[j]) /\ \A k \in i..(j - 1) : ~IsMarkEnd(events[k])

(* the texts of the <mark> elements of a tree, in document order *)
RECURSIVE MarkedWords(_, _)
MarkedWords(events, i) ==
    IF i > Len(events) THEN <<>>
    ELSE (IF events[i].type = "start" /\ events[i].local = "mark"
          THEN <<TextBetween(events, i, MarkEnd(events, i))>> ELSE <<>>)
         \o MarkedWords(events, i + 1)

NonEmptyWords(events) == SelectSeq(MarkedWords(events, 1), LAMBDA w : w # <<>>)
LookedUp == [i \in 1..Len(pass.marks) |-> pass.marks[i].text]
PipeReturned == pc = "done" /\ gen # <<>> /\ gen.at = "return"
PbInsideMark(events) ==
    \E i \in 1..Len(events) :
        /\ events[i].type = "start" /\ events[i].local = "mark"
        /\ \E k \in i..MarkEnd(events, i) : IsContentPb(events[k])

(* C38: when flexify has run on the tree paginate returned, the lookups    *)
(* counted in total are as many as the <mark> elements with text in the    *)
(* pseudo-HTML tree, and the words looked up are the full texts of those   *)
(* elements, in document order.                                            *)
C38_OneLookupPerMarkedWord ==
    PipeReturned =>
        /\ flex.total - pass.total0 = Len(NonEmptyWords(gen.pseudo_html_root))
        /\ LookedUp = NonEmptyWords(gen.pseudo_html_root)

(* the same on the trees with no content page break inside a <mark> *)
C38_OneLookupPerMarkedWordApart ==
    (PipeReturned /\ ~PbInsideMark(gen.pseudo_html_root)) =>
        /\ flex.total - pass.total0 = Len(NonEmptyWords(gen.pseudo_html_root))
        /\ LookedUp = NonEmptyWords(gen.pseudo_html_root)

IsSectionStep ==
    /\ outline # <<>> /\ Len(inp') = Len(inp) + 1
    /\ LET e == inp'[Len(inp')] IN
          /\ e.type = "start" /\ e.local = "div"
          /\ \E p \in e.attrs : EndsWithId(p[1]) /\ StartsWith(p[2], OutlineText)
ContentBreaks(events) == Cardinality({i \in 1..Len(events) : IsContentPb(events[i])})
OpenPageNumber(events) ==
    LET opens == {i \in 1..Len(events) : IsPageOpen(events[i])}
        last == CHOOSE i \in opens : \A j \in opens : j <= i
    IN  AttrGet(events[last].attrs, "data-n", None)
PageAgreement ==
    /\ outline'.in_progress.page = str(outline.first_page + ContentBreaks(inp))
    /\ outline.first_page = 0 => outline'.in_progress.page = OpenPageNumber(out')
KnownBreaks(events) ==
    \A i \in 1..Len(events) :
        IsStart(events[i], "pb") =>
            /\ events[i].uri \in {None, TEI_NS}
            /\ \A p \in events[i].attrs : p[1] = "type"

(* C39: when a section's <div> starts, the page the OutlineBuilder puts    *)
(* in the section's link is first_page plus the number of page breaks      *)
(* other than pdf ones before the <div>, and with first_page = 0 it is the *)
(* data-n of the page wrapper the TEIPager has open there.                 *)
C39_OutlinePagerAgree == [][IsSectionStep => PageAgreement]_vars

(* the same on documents whose page breaks have no namespace or the TEI    *)
(* one and no type attribute in a namespace                                *)
C39_OutlinePagerAgreeApart ==
    [][(IsSectionStep /\ KnownBreaks(inp)) => PageAgreement]_vars

OpenLists(o) == Cardinality({i \in 1..Len(o.elem) : o.elem[i] = "ul"})
EndsMatch(o) ==
    \A i \in 1..Len(o.events) :
        o.events[i].type = "end" => o.events[i].closes = o.events[i].tag
ListsOpenAsNumbered ==
    (outline # <<>> /\ pc # "closed") => OpenLists(outline) = Len(outline.number)
AllClosed ==
    /\ outline.err = "none" /\ outline.closed
    /\ outline.elem = <<>>
    /\ EndsMatch(outline)

(* C40: as many <ul> are open after a section is written as its number     *)
(* has components, and after close() every <ul> and the index <div> has    *)
(* been closed by an end of its own.                                       *)
C40_ListBalance ==
    /\ ListsOpenAsNumbered
    /\ (outline # <<>> /\ pc = "closed") => AllClosed

(* the first half alone: the open lists follow the section number *)
C40_OpenListsFollowNumber == ListsOpenAsNumbered

(* close() closes everything when the last section written is a top-level  *)
(* one, or none was written                                                *)
C40_ListBalanceTopLevel ==
    (outline # <<>> /\ pc = "closed" /\ Len(outline.number) = 1) => AllClosed

====
